---- MODULE Spec2Model ----
(***************************************************************************)
(* Motion-planning core of the simulator: the RRT planner                  *)
(* (path_planner.py), its sampled collision test, its progress callback    *)
(* and path smoothing, the pure-pursuit path follower (path_follower.py),  *)
(* the Ackermann car (car_enhanced.py) and the manual and autonomous       *)
(* control methods that drive it (main.py).                                *)
(*                                                                         *)
(* Arithmetic is fixed point.  A length or coordinate is an integer count  *)
(* of 1/Unit pixel, so that the planner's clearance radius of 22.5 px and  *)
(* the eleven sample points of an edge between whole-pixel end points are  *)
(* exact.  Square roots and quotients round toward zero.  Steering angles  *)
(* are whole degrees, the car's heading is in thousandths of a degree and  *)
(* its velocities in thousandths of a pixel per frame; sines and tangents  *)
(* are thousandths.                                                        *)
(***************************************************************************)
EXTENDS Integers, Sequences, FiniteSets, TLC

VARIABLES
    environment,             \* planner.environment: width, height, obstacles
    nodes,                   \* RRTPlanner.nodes, in insertion order
    planState,               \* position of plan(): IDLE, INIT, GROWING, FOUND, EXHAUSTED
    iter,                    \* the loop variable i of plan()
    start,                   \* plan()'s (start_x, start_y)
    goal,                    \* plan()'s (goal_x, goal_y)
    result,                  \* plan()'s returned path (<<>> while running and for None)
    sample,                  \* (rand_x, rand_y) of the last loop iteration
    new_node,                \* new_node of the last loop iteration (0 for None)
    plan_calls,              \* number of plan() calls made so far
    path,                    \* PurePursuitController.path
    current_waypoint_index,  \* PurePursuitController.current_waypoint_index
    lastOp,                  \* the controller operation that ran last
    car,                     \* the pose handed to that operation
    ret,                     \* its return value
    raised,                  \* whether it raised instead of returning
    threshold,               \* the threshold handed to the last is_path_complete call
    seg,                     \* the segment handed to _is_path_clear
    clear,                   \* what _is_path_clear returned for seg
    vehicle,                 \* the Car: pose, velocity, steering angle, wheel velocities
    carOp,                   \* the kind of Car operation that ran last: update or control
    updates,                 \* number of Car.update calls made so far
    observed,                \* snapshots handed to visualization_callback by the last iteration
    goal_samples,            \* loop iterations of the running plan() that sampled the goal
    stream,                  \* the values the random source has produced, in order
    drawn,                   \* how many of them the running plan() has consumed
    first_run,               \* nodes and result of the first of two seeded plan() calls
    smooth,                  \* the last smooth_path call: its path, the fit, its outcome
    nearest_returned,        \* what _get_nearest_node called on its own returned (0 before)
    sim,                     \* the Simulation's flags, planned path and position
    visualization_callback   \* RRTPlanner.visualization_callback

vars == <<environment, nodes, planState, iter, start, goal, result, sample, new_node,
          plan_calls, path, current_waypoint_index, lastOp, car, ret, raised, threshold,
          seg, clear, vehicle, carOp, updates, observed, goal_samples, stream, drawn, first_run, smooth,
          nearest_returned, sim, visualization_callback>>

plannerVars == <<nodes, planState, iter, start, goal, result, sample, new_node, plan_calls>>
followerVars == <<path, current_waypoint_index, lastOp, car, ret, raised, threshold>>
segmentVars == <<seg, clear>>
carVars == <<vehicle, carOp, updates>>
observerVars == <<observed, goal_samples>>
randomVars == <<stream, drawn, first_run>>
scanVars == <<nearest_returned>>
simVars == <<sim, visualization_callback>>
restVars == <<carVars, observerVars, randomVars, smooth, scanVars, simVars>>

(***************************************************************************)
(* Program constants                                                       *)
(***************************************************************************)
CAR_WIDTH == 20
CAR_LENGTH == 35
CAR_MAX_SPEED == 2500            \* 2.5 px per frame, in thousandths
CAR_MAX_STEERING == 45           \* degrees
RRT_STEP_SIZE == 25
goal_threshold_px == 35
num_checks == 10
lookahead_px == 40
complete_threshold_px == 50
slow_down_px == 100
CAR_ACCELERATION == 200           \* thousandths of a pixel per frame, per call
CAR_DECELERATION == 600
CAR_STEERING_SPEED == 3           \* degrees per call
CAR_START_X == 70
CAR_START_Y == 70
CAR_START_ANGLE == 0
RRT_GOAL_SAMPLE_RATE == 200       \* thousandths
visualization_interval == 5
resample_factor == 5              \* smooth_path evaluates len(path) * 5 points
GOAL_RADIUS == 20
collision_margin_px == 20         \* check_collision keeps the car 20 px off the border

\* The iteration budget of plan(): 5000 in config.py, capped to keep the state space finite.
MaxIterations == 4
\* The number of plan() calls made on one planner.
\* Car.update calls in a run of the kinematics
MaxUpdates == 3
\* Longest path handed to smooth_path
MaxSmoothLen == 4
\* max_iterations of the planner that runs with an observer
MaxObservedIterations == 6
\* max_iterations of the planner that runs on a recorded random stream
MaxSeededIterations == 4
\* Largest tree handed to _get_nearest_node on its own
MaxTreeLen == 3
\* max_iterations of the planner the Simulation owns
MaxSimIterations == 2
\* passes of the main loop of one Simulation in which manual_control acts
MaxSimUpdates == 1
\* plan() calls made by one Simulation
MaxSimPlans == 1
\* Car.update calls up to which autonomous_control acts
MaxSimFrames == 7
MaxPlans == 2

Unit == 2 * num_checks
Px(n) == n * Unit
Pt(px, py) == [x |-> Px(px), y |-> Px(py)]

max_iterations == MaxIterations
step_size == Px(RRT_STEP_SIZE)
goal_threshold == Px(goal_threshold_px)
lookahead_distance == Px(lookahead_px)
wheelbase == (Px(CAR_LENGTH) * 7) \div 10

(***************************************************************************)
(* Fixed-point helpers                                                     *)
(***************************************************************************)
Abs(a) == IF a < 0 THEN -a ELSE a
Min(a, b) == IF a < b THEN a ELSE b
Max(a, b) == IF a > b THEN a ELSE b
\* Quotient rounded toward zero.
Quot(a, b) == IF a >= 0 THEN a \div b ELSE -((-a) \div b)

RECURSIVE SqrtSearch(_, _, _)
SqrtSearch(n, lo, hi) ==
    IF lo >= hi THEN lo
    ELSE LET mid == (lo + hi + 1) \div 2
         IN IF mid * mid <= n THEN SqrtSearch(n, mid, hi)
                              ELSE SqrtSearch(n, lo, mid - 1)
\* np.sqrt, rounded down.
Sqrt(n) == SqrtSearch(n, 0, Min(n, 46340))

\* RRTPlanner._distance / PurePursuitController._distance
Distance(x1, y1, x2, y2) == Sqrt((x2 - x1) * (x2 - x1) + (y2 - y1) * (y2 - y1))

(***************************************************************************)
(* Environment: workspace and obstacles                                    *)
(***************************************************************************)
Obstacle(px, py, w, h) ==
    [kind |-> "rect", x |-> Px(px), y |-> Px(py), width |-> Px(w), height |-> Px(h),
     radius |-> 0]
CircleObstacle(px, py, r) ==
    [kind |-> "circle", x |-> Px(px), y |-> Px(py), width |-> 0, height |-> 0,
     radius |-> Px(r)]
Environment(w, h, obs) == [width |-> Px(w), height |-> Px(h), obstacles |-> obs]

\* car_radius = max(CAR_WIDTH, CAR_LENGTH) / 2 + 5
car_radius == (Px(Max(CAR_WIDTH, CAR_LENGTH)) \div 2) + Px(5)

\* Mutant: the rectangle is widened by the radius once, not on both sides.
PointNearObstacleOneSided(x, y, obstacle, radius) ==
    IF obstacle.kind = "circle"
    THEN LET reach == obstacle.radius + radius
         IN (x - obstacle.x) * (x - obstacle.x) + (y - obstacle.y) * (y - obstacle.y)
                < reach * reach
    ELSE LET expanded_x == obstacle.x - radius
             expanded_y == obstacle.y - radius
             expanded_width == obstacle.width + radius
             expanded_height == obstacle.height + radius
         IN /\ expanded_x <= x /\ x <= expanded_x + expanded_width
            /\ expanded_y <= y /\ y <= expanded_y + expanded_height

\* RRTPlanner._point_near_obstacle
PointNearObstacle(x, y, obstacle, radius) ==
    IF obstacle.kind = "circle"
    THEN LET reach == obstacle.radius + radius
         IN (x - obstacle.x) * (x - obstacle.x) + (y - obstacle.y) * (y - obstacle.y)
                < reach * reach
    ELSE LET expanded_x == obstacle.x - radius
             expanded_y == obstacle.y - radius
             expanded_width == obstacle.width + 2 * radius
             expanded_height == obstacle.height + 2 * radius
         IN /\ expanded_x <= x /\ x <= expanded_x + expanded_width
            /\ expanded_y <= y /\ y <= expanded_y + expanded_height

\* The i-th of n+1 equally spaced points of the segment: x1 + (i/n)*(x2 - x1).
SamplePoint(x1, y1, x2, y2, i, n) ==
    [x |-> x1 + Quot(i * (x2 - x1), n), y |-> y1 + Quot(i * (y2 - y1), n)]

\* Mutant: the boundary is inset by the car's full size, not by car_radius.
PointClearFullSize(env, p) ==
    /\ ~(p.x < 2 * car_radius \/ p.x > env.width - 2 * car_radius)
    /\ ~(p.y < 2 * car_radius \/ p.y > env.height - 2 * car_radius)
    /\ \A k \in 1..Len(env.obstacles) :
           ~PointNearObstacle(p.x, p.y, env.obstacles[k], car_radius)

\* One sample point of _is_path_clear passes the boundary and obstacle checks.
PointClear(env, p) ==
    /\ ~(p.x < car_radius \/ p.x > env.width - car_radius)
    /\ ~(p.y < car_radius \/ p.y > env.height - car_radius)
    /\ \A k \in 1..Len(env.obstacles) :
           ~PointNearObstacle(p.x, p.y, env.obstacles[k], car_radius)

\* RRTPlanner._is_path_clear
IsPathClear(env, x1, y1, x2, y2) ==
    \A i \in 0..num_checks : PointClear(env, SamplePoint(x1, y1, x2, y2, i, num_checks))

(***************************************************************************)
(* RRT planner                                                             *)
(***************************************************************************)
\* class Node: a position, the index of the parent in nodes (0 for None), a cost.
Node(x, y) == [x |-> x, y |-> y, parent |-> 0, cost |-> 0]

RECURSIVE NearestScanLastWins(_, _, _, _, _, _)
\* Mutant: a later node at the same distance replaces the earlier one.
NearestScanLastWins(ns, x, y, k, min_dist, nearest) ==
    IF k > Len(ns) THEN nearest
    ELSE LET dist == Distance(ns[k].x, ns[k].y, x, y)
         IN IF min_dist < 0 \/ dist <= min_dist
            THEN NearestScanLastWins(ns, x, y, k + 1, dist, k)
            ELSE NearestScanLastWins(ns, x, y, k + 1, min_dist, nearest)

RECURSIVE NearestScan(_, _, _, _, _, _)
NearestScan(ns, x, y, k, min_dist, nearest) ==
    IF k > Len(ns) THEN nearest
    ELSE LET dist == Distance(ns[k].x, ns[k].y, x, y)
         IN IF min_dist < 0 \/ dist < min_dist
            THEN NearestScan(ns, x, y, k + 1, dist, k)
            ELSE NearestScan(ns, x, y, k + 1, min_dist, nearest)

\* RRTPlanner._get_nearest_node; min_dist -1 stands for float('inf').
GetNearestNode(ns, x, y) == NearestScan(ns, x, y, 1, -1, 0)

\* Mutant: the cost of the edge alone, the parent's cost forgotten.
NewCostEdgeOnly(from_node, new_x, new_y) ==
    Distance(from_node.x, from_node.y, new_x, new_y)

\* The cost given to a node created from from_node at (new_x, new_y).
NewCost(from_node, new_x, new_y) ==
    from_node.cost + Distance(from_node.x, from_node.y, new_x, new_y)

\* Mutant: the edge is accepted when its end point alone is clear.
EdgeAcceptedEndOnly(env, from_node, new_x, new_y) ==
    PointClear(env, [x |-> new_x, y |-> new_y])

\* The check that guards the creation of a node in _extend_tree.
EdgeAccepted(env, from_node, new_x, new_y) ==
    IsPathClear(env, from_node.x, from_node.y, new_x, new_y)

\* Mutant: the tree is extended all the way to the sample.
ExtendTreeToSample(env, ns, from, to_x, to_y) ==
    LET from_node == ns[from]
    IN IF Distance(from_node.x, from_node.y, to_x, to_y) = 0 THEN <<>>
       ELSE IF ~EdgeAccepted(env, from_node, to_x, to_y) THEN <<>>
       ELSE << [x |-> to_x, y |-> to_y, parent |-> from,
                cost |-> NewCost(from_node, to_x, to_y)] >>

\* RRTPlanner._extend_tree: <<>> for None, else <<new_node>>.
ExtendTree(env, ns, from, to_x, to_y) ==
    LET from_node == ns[from]
        dx == to_x - from_node.x
        dy == to_y - from_node.y
        dist == Sqrt(dx * dx + dy * dy)
    IN IF dist = 0 THEN <<>>
       ELSE LET step_x == Quot(dx * Min(step_size, dist), dist)
                step_y == Quot(dy * Min(step_size, dist), dist)
                new_x == from_node.x + step_x
                new_y == from_node.y + step_y
            IN IF ~EdgeAccepted(env, from_node, new_x, new_y) THEN <<>>
               ELSE << [x |-> new_x, y |-> new_y, parent |-> from,
                        cost |-> NewCost(from_node, new_x, new_y)] >>

Reverse(s) == [k \in 1..Len(s) |-> s[Len(s) + 1 - k]]

RECURSIVE WalkParents(_, _, _)
WalkParents(ns, current, acc) ==
    IF current = 0 THEN acc
    ELSE WalkParents(ns, ns[current].parent,
                     Append(acc, [x |-> ns[current].x, y |-> ns[current].y]))

\* Mutant: the collected positions are not reversed.
ExtractPathUnreversed(ns, goal_node) == WalkParents(ns, goal_node, <<>>)

\* RRTPlanner._extract_path
ExtractPath(ns, goal_node) == Reverse(WalkParents(ns, goal_node, <<>>))

\* Mutant: one iteration too many.
LoopContinuesOneMore(i) == i <= max_iterations

\* for i in range(self.max_iterations)
LoopContinues(i) == i < max_iterations

\* dist_to_goal < self.goal_threshold
GoalReached(n, g) == Distance(n.x, n.y, g.x, g.y) < goal_threshold

\* Mutant: the goal is not appended.
FoundPathNoGoal(ns, k, g) == ExtractPath(ns, k)

\* The path plan() returns from new_node: the extracted path, then the goal.
FoundPath(ns, k, g) == Append(ExtractPath(ns, k), g)

(***************************************************************************)
(* Inputs of the planner runs                                              *)
(***************************************************************************)
Environments ==
    { Environment(200, 200, <<>>),
      Environment(200, 200, << Obstacle(90, 80, 20, 40) >>),
      Environment(200, 200, << CircleObstacle(100, 110, 10), Obstacle(20, 150, 10, 10) >>) }

\* (start, goal) of a plan() call
PlanCalls ==
    { << Pt(40, 30), Pt(110, 30) >>,
      << Pt(30, 100), Pt(80, 100) >>,
      << Pt(10, 100), Pt(60, 100) >> }

\* values random.uniform can draw for (rand_x, rand_y)
RandomPoints == { Pt(40, 30), Pt(100, 100), Pt(40, 60), Pt(170, 40), Pt(55, 30) }

NoPoint == [x |-> 0, y |-> 0]

PlannerInit ==
    /\ nodes = <<>>
    /\ planState = "IDLE"
    /\ iter = 0
    /\ start = NoPoint
    /\ goal = NoPoint
    /\ result = <<>>
    /\ sample = NoPoint
    /\ new_node = 0
    /\ plan_calls = 0

\* Mutant: the start node is appended to the previous tree.
PlanBeginKeepsTree(s, g) ==
    /\ planState \in {"IDLE", "FOUND", "EXHAUSTED"}
    /\ plan_calls < MaxPlans
    /\ plan_calls' = plan_calls + 1
    /\ start' = s
    /\ goal' = g
    /\ nodes' = Append(nodes, Node(s.x, s.y))
    /\ planState' = "INIT"
    /\ iter' = 0
    /\ result' = <<>>
    /\ sample' = NoPoint
    /\ new_node' = 0
    /\ UNCHANGED <<environment, followerVars, segmentVars, restVars>>

\* plan(), lines 108-112, on the planner's own state: the tree is replaced by the
\* start node alone.
PlanBeginStep(s, g) ==
    /\ planState \in {"IDLE", "FOUND", "EXHAUSTED"}
    /\ plan_calls < MaxPlans
    /\ plan_calls' = plan_calls + 1
    /\ start' = s
    /\ goal' = g
    /\ nodes' = << Node(s.x, s.y) >>
    /\ planState' = "INIT"
    /\ iter' = 0
    /\ result' = <<>>
    /\ sample' = NoPoint
    /\ new_node' = 0
    /\ UNCHANGED environment

\* plan() is called on a planner without observer.
PlanBegin(s, g) ==
    /\ PlanBeginStep(s, g)
    /\ UNCHANGED <<followerVars, segmentVars, restVars>>

\* plan() reaches its loop, on the planner's own state.
EnterLoopStep ==
    /\ planState = "INIT"
    /\ planState' = "GROWING"
    /\ UNCHANGED <<environment, nodes, iter, start, goal, result, sample, new_node,
                   plan_calls>>

EnterLoop ==
    /\ EnterLoopStep
    /\ UNCHANGED <<followerVars, segmentVars, restVars>>

\* One iteration of the loop of plan(), lines 114-162, on the planner's own state.
\* coin is the outcome of random.random() < goal_sample_rate, p the point drawn
\* otherwise.
IterateStep(coin, p) ==
    /\ planState = "GROWING"
    /\ LET rand == IF coin THEN goal ELSE p
           nearest_node == GetNearestNode(nodes, rand.x, rand.y)
           new == ExtendTree(environment, nodes, nearest_node, rand.x, rand.y)
       IN /\ sample' = rand
          /\ IF new = <<>>
             THEN /\ nodes' = nodes
                  /\ new_node' = 0
                  /\ iter' = iter + 1
                  /\ UNCHANGED <<planState, result>>
             ELSE /\ nodes' = Append(nodes, new[1])
                  /\ new_node' = Len(nodes) + 1
                  /\ IF GoalReached(new[1], goal)
                     THEN /\ planState' = "FOUND"
                          /\ result' = FoundPath(nodes', Len(nodes'), goal)
                          /\ iter' = iter
                     ELSE /\ iter' = iter + 1
                          /\ UNCHANGED <<planState, result>>
    /\ UNCHANGED <<environment, start, goal, plan_calls>>

\* An iteration of a planner without observer, within max_iterations.
Iterate(coin, p) ==
    /\ LoopContinues(iter)
    /\ IterateStep(coin, p)
    /\ UNCHANGED <<followerVars, segmentVars, restVars>>

\* The loop of plan() ends without a path: return None.
ExhaustStep ==
    /\ planState = "GROWING"
    /\ planState' = "EXHAUSTED"
    /\ result' = <<>>
    /\ UNCHANGED <<environment, nodes, iter, start, goal, sample, new_node, plan_calls>>

Exhaust ==
    /\ ~LoopContinues(iter)
    /\ ExhaustStep
    /\ UNCHANGED <<followerVars, segmentVars, restVars>>

\* Car.__init__: x and y in 1/Unit pixel, the heading in thousandths of a degree,
\* velocities in thousandths of a pixel per frame, the steering angle in degrees.
Car(x, y, angle) ==
    [x |-> x, y |-> y, angle |-> angle, velocity |-> 0, steering_angle |-> 0,
     left_wheel_velocity |-> 0, right_wheel_velocity |-> 0]

\* Simulation.__init__, line 28: the car at its start pose
CarInit ==
    /\ vehicle = Car(Px(CAR_START_X), Px(CAR_START_Y), 1000 * CAR_START_ANGLE)
    /\ carOp = "init"
    /\ updates = 0

\* RRTPlanner.__init__: no visualization_callback has been called.
ObserverIdle ==
    /\ observed = <<>>
    /\ goal_samples = 0

\* No random value has been drawn.
RandomIdle ==
    /\ stream = <<>>
    /\ drawn = 0
    /\ first_run = [done |-> FALSE, nodes |-> <<>>, result |-> <<>>]

\* smooth_path has not been called.
SmoothIdle ==
    smooth = [path |-> <<>>, fit |-> "none", called |-> FALSE, raised |-> FALSE,
              result |-> <<>>]

\* _get_nearest_node has not been called on its own.
ScanIdle == nearest_returned = 0

\* Simulation.__init__: the flags, no planned path (<<>> for None; a planned path
\* always has waypoints) and no visualization data (<<>> for None).  at is the
\* position of the main thread: in the loop of run(), inside plan() called by
\* start_autonomous_mode, or past the loop; printed is the last line start_autonomous_mode printed;
\* pending holds the snapshots of the running plan() iteration that
\* on_planning_update has still to receive; frames counts the passes of the loop
\* in which manual_control acted on the present car.  RRTPlanner.__init__: no observer.
SimulationInit ==
    /\ sim = [running |-> TRUE, paused |-> FALSE, collision |-> FALSE,
              goal_reached |-> FALSE, autonomous_mode |-> FALSE, planned_path |-> <<>>,
              planning_in_progress |-> FALSE, planning_complete |-> FALSE,
              rrt_visualization_data |-> <<>>, at |-> "run", printed |-> "",
              pending |-> <<>>, frames |-> 0]
    /\ visualization_callback = "none"

RestIdle ==
    /\ CarInit
    /\ ObserverIdle
    /\ RandomIdle
    /\ SmoothIdle
    /\ ScanIdle
    /\ SimulationInit

\* PurePursuitController.__init__
FollowerInit ==
    /\ path = <<>>
    /\ current_waypoint_index = 0
    /\ lastOp = "init"
    /\ car = [x |-> 0, y |-> 0, angle |-> 0]
    /\ ret = 0
    /\ raised = FALSE
    /\ threshold = Px(complete_threshold_px)

SegmentIdle ==
    /\ seg = [x1 |-> 0, y1 |-> 0, x2 |-> 0, y2 |-> 0, checked |-> FALSE]
    /\ clear = FALSE

Init ==
    /\ environment \in Environments
    /\ PlannerInit
    /\ FollowerInit
    /\ SegmentIdle
    /\ RestIdle

Next ==
    \/ \E c \in PlanCalls : PlanBegin(c[1], c[2])
    \/ EnterLoop
    \/ \E coin \in BOOLEAN : \E p \in RandomPoints : Iterate(coin, p)
    \/ Exhaust

Spec == Init /\ [][Next]_vars

(***************************************************************************)
(* Properties of the planner                                               *)
(***************************************************************************)
Pos(n) == [x |-> n.x, y |-> n.y]
Running == planState \in {"INIT", "GROWING"}
Planned == planState # "IDLE"

RECURSIVE Ancestor(_, _, _)
\* The node reached from node k of ns by d parent links.
Ancestor(ns, k, d) == IF d = 0 THEN k ELSE Ancestor(ns, ns[k].parent, d - 1)

\* The number of parent links from node k to a node without parent, when every
\* parent precedes its child.
Depth(ns, k) == CHOOSE d \in 0..Len(ns) : ns[Ancestor(ns, k, d)].parent = 0

\* C1: whenever plan returns a path, the path starts at the start position, ends
\* at the goal handed to plan, and its last point but one is the position of a
\* tree node closer to the goal than goal_threshold.
C1_FoundPathEnds ==
    planState = "FOUND" =>
        /\ Len(result) >= 2
        /\ result[1] = start
        /\ result[Len(result)] = goal
        /\ \E k \in 1..Len(nodes) :
               /\ Pos(nodes[k]) = result[Len(result) - 1]
               /\ Distance(nodes[k].x, nodes[k].y, goal.x, goal.y) < goal_threshold

\* A path was returned through at least two tree edges, the goal not being a node.
C1_Witness ==
    /\ planState = "FOUND"
    /\ Len(result) >= 4
    /\ result[Len(result) - 1] # goal

C2_StateOK ==
    /\ planState \in {"IDLE", "INIT", "GROWING", "FOUND", "EXHAUSTED"}
    /\ iter >= 0 /\ iter <= max_iterations
    /\ planState = "FOUND" => result # <<>>
    /\ Running => \A p \in RandomPoints \cup {goal} :
                      GetNearestNode(nodes, p.x, p.y) \in 1..Len(nodes)
    /\ planState = "EXHAUSTED" =>
           /\ result = <<>>
           /\ \A k \in 2..Len(nodes) :
                  Distance(nodes[k].x, nodes[k].y, goal.x, goal.y) >= goal_threshold

C2_StepOK ==
    /\ planState = "INIT" => planState' = "GROWING"
    /\ planState = "GROWING" =>
           /\ planState' \in {"GROWING", "FOUND", "EXHAUSTED"}
           /\ planState' = "GROWING" => iter' = iter + 1
           /\ planState' = "EXHAUSTED" => iter = max_iterations
    /\ planState \in {"FOUND", "EXHAUSTED"} => planState' = "INIT"

\* C2: plan goes INIT -> GROWING and ends in FOUND (a path) or EXHAUSTED (None);
\* every step of the loop either ends the run or counts one more iteration, the
\* count never exceeds max_iterations, the nearest node an iteration extends from
\* always exists (nothing is raised), and None is returned only when no added
\* node is within goal_threshold.
C2_PlanTerminates == [](C2_StateOK) /\ [][C2_StepOK]_vars

\* The budget was used up with nodes added, and None returned.
C2_Witness ==
    /\ planState = "EXHAUSTED"
    /\ iter = max_iterations
    /\ Len(nodes) >= 3

\* Every sampled point of the edge from a to b is inside the workspace inset by
\* the clearance radius and near no obstacle.
EdgeInFreeSpace(env, a, b) ==
    \A i \in 0..num_checks :
        LET q == SamplePoint(a.x, a.y, b.x, b.y, i, num_checks)
        IN /\ car_radius <= q.x /\ q.x <= env.width - car_radius
           /\ car_radius <= q.y /\ q.y <= env.height - car_radius
           /\ \A o \in 1..Len(env.obstacles) :
                  ~PointNearObstacle(q.x, q.y, env.obstacles[o], car_radius)

C3_TreeInFreeSpace ==
    \A k \in 2..Len(nodes) : EdgeInFreeSpace(environment, nodes[nodes[k].parent], nodes[k])

C3_StepOK ==
    planState = "GROWING" =>
        \/ nodes' = nodes
        \/ /\ Len(nodes') = Len(nodes) + 1
           /\ SubSeq(nodes', 1, Len(nodes)) = nodes
           /\ LET n == nodes'[Len(nodes')]
                  nearest == nodes[n.parent]
              IN /\ Pos(nearest) # sample'
                 /\ IsPathClear(environment, nearest.x, nearest.y, n.x, n.y)

\* C3: an iteration appends at most one node, and only when the direction from
\* the nearest node to the sample is not of zero length and the segment from the
\* nearest node to the candidate is clear; otherwise the tree is unchanged.  So
\* every node but the root, with the sampled points of its edge, is in free space.
C3_OnlyClearEdges == [](C3_TreeInFreeSpace) /\ [][C3_StepOK]_vars

\* An iteration was rejected for a blocked edge (its sample is no tree node) in a
\* tree that has already grown.
C3_Witness ==
    /\ planState = "GROWING"
    /\ iter > 0
    /\ new_node = 0
    /\ Len(nodes) >= 2
    /\ \A k \in 1..Len(nodes) : Pos(nodes[k]) # sample

C5_CostsOK ==
    /\ Planned => nodes[1].cost = 0
    /\ \A k \in 2..Len(nodes) :
           LET n == nodes[k]
               parent == nodes[n.parent]
           IN n.cost = parent.cost + Distance(n.x, n.y, parent.x, parent.y)

C5_NodesKept ==
    planState' # "INIT" =>
        /\ Len(nodes') >= Len(nodes)
        /\ \A k \in 1..Len(nodes) : nodes'[k] = nodes[k]

\* C5: at every point of plan the root has cost 0 and every other node's cost is
\* its parent's cost plus its distance to the parent; a node, once created, keeps
\* its position, parent and cost.
C5_CostInvariant == [](C5_CostsOK) /\ [][C5_NodesKept]_vars

\* A node whose parent is itself not the root, so that the parent's cost counts.
C5_Witness ==
    \E k \in 2..Len(nodes) :
        /\ nodes[k].parent # 1
        /\ nodes[nodes[k].parent].cost > 0
        /\ nodes[k].cost > nodes[nodes[k].parent].cost

C7_ExtractPathChain ==
    \A k \in 1..Len(nodes) :
        LET p == ExtractPath(nodes, k)
            d == Depth(nodes, k)
        IN /\ Len(p) = d + 1
           /\ p[1] = Pos(nodes[1])
           /\ p[Len(p)] = Pos(nodes[k])
           /\ \A j \in 1..Len(p) : p[j] = Pos(nodes[Ancestor(nodes, k, Len(p) - j)])
           /\ \A j \in 1..(Len(p) - 1) :
                  nodes[Ancestor(nodes, k, Len(p) - j - 1)].parent
                      = Ancestor(nodes, k, Len(p) - j)

\* A node three levels below the root.
C7_Witness ==
    \E k \in 1..Len(nodes) : nodes[k].parent > 1 /\ nodes[nodes[k].parent].parent > 1

(***************************************************************************)
(* Pure-pursuit path follower                                              *)
(***************************************************************************)
\* 1000 * sin(d degrees), d in 0..90, at index d + 1
SinTable ==
    << 0, 17, 35, 52, 70, 87, 105, 122, 139, 156, 174, 191, 208, 225, 242, 259, 276,
       292, 309, 326, 342, 358, 375, 391, 407, 423, 438, 454, 469, 485, 500, 515, 530,
       545, 559, 574, 588, 602, 616, 629, 643, 656, 669, 682, 695, 707, 719, 731, 743,
       755, 766, 777, 788, 799, 809, 819, 829, 839, 848, 857, 866, 875, 883, 891, 899,
       906, 914, 921, 927, 934, 940, 946, 951, 956, 961, 966, 970, 974, 978, 982, 985,
       988, 990, 993, 995, 996, 998, 999, 999, 1000, 1000 >>

\* 1000 * tan(d degrees), d in 1..89, at index d
TanTable ==
    << 17, 35, 52, 70, 87, 105, 123, 141, 158, 176, 194, 213, 231, 249, 268, 287, 306,
       325, 344, 364, 384, 404, 424, 445, 466, 488, 510, 532, 554, 577, 601, 625, 649,
       675, 700, 727, 754, 781, 810, 839, 869, 900, 933, 966, 1000, 1036, 1072, 1111,
       1150, 1192, 1235, 1280, 1327, 1376, 1428, 1483, 1540, 1600, 1664, 1732, 1804,
       1881, 1963, 2050, 2145, 2246, 2356, 2475, 2605, 2747, 2904, 3078, 3271, 3487,
       3732, 4011, 4331, 4705, 5145, 5671, 6314, 7115, 8144, 9514, 11430, 14301, 19081,
       28636, 57290 >>

\* np.sin of an angle in whole degrees, in thousandths
SinMilli(deg) ==
    LET a == deg % 360
    IN IF a <= 90 THEN SinTable[a + 1]
       ELSE IF a <= 180 THEN SinTable[180 - a + 1]
       ELSE IF a <= 270 THEN -SinTable[a - 180 + 1]
       ELSE -SinTable[360 - a + 1]

\* np.cos of an angle in whole degrees, in thousandths
CosMilli(deg) == SinMilli(deg + 90)

\* np.sin(np.arctan2(y, x)), in thousandths: y / sqrt(x^2 + y^2), and 0 at the origin
SinOfArctan2(y, x) ==
    IF x = 0 /\ y = 0 THEN 0
    ELSE LET h == Sqrt(x * x + y * y)
             q == Quot(1000 * y, h)
         IN Max(-1000, Min(1000, q))

\* np.degrees(np.arctan2(y, x)) for x > 0, rounded toward zero to whole degrees
Arctan2Deg(y, x) ==
    LET m == CHOOSE d \in 0..89 :
                 /\ d = 0 \/ TanTable[d] * x <= 1000 * Abs(y)
                 /\ d = 89 \/ TanTable[d + 1] * x > 1000 * Abs(y)
    IN IF y < 0 THEN -m ELSE m

\* np.clip
Clip(v, lo, hi) == IF v < lo THEN lo ELSE IF v > hi THEN hi ELSE v

RECURSIVE LookaheadScan(_, _, _)
\* The loop of _get_lookahead_point from index i (0-based): the first index whose
\* waypoint is at least lookahead_distance from the car, or -1 when there is none.
LookaheadScan(p, c, i) ==
    IF i >= Len(p) THEN -1
    ELSE IF Distance(c.x, c.y, p[i + 1].x, p[i + 1].y) >= lookahead_distance THEN i
    ELSE LookaheadScan(p, c, i + 1)

\* Mutant: the index of the lookahead waypoint itself is kept.
IndexAtLookahead(p, idx, c) ==
    LET i == LookaheadScan(p, c, idx)
    IN IF i >= 0 THEN i ELSE idx

\* current_waypoint_index after _get_lookahead_point
IndexAfterLookahead(p, idx, c) ==
    LET i == LookaheadScan(p, c, idx)
    IN IF i >= 0 THEN Max(0, i - 1) ELSE idx

\* The waypoint _get_lookahead_point returns (the path is not empty)
LookaheadPoint(p, idx, c) ==
    LET i == LookaheadScan(p, c, idx)
    IN IF i >= 0 THEN p[i + 1] ELSE p[Len(p)]

\* Mutant: the steering angle is not clamped.
SteeringTowardUnclipped(c, lookahead_point) ==
    LET dx == lookahead_point.x - c.x
        dy == lookahead_point.y - c.y
        local_x == Quot(dx * CosMilli(-c.angle) - dy * SinMilli(-c.angle), 1000)
        local_y == Quot(dx * SinMilli(-c.angle) + dy * CosMilli(-c.angle), 1000)
        sin_alpha == SinOfArctan2(local_y, local_x)
    IN Arctan2Deg(Quot(2 * wheelbase * sin_alpha, 1000), lookahead_distance)

\* calculate_steering, lines 48-74: the clamped steering angle in degrees
SteeringToward(c, lookahead_point) ==
    LET dx == lookahead_point.x - c.x
        dy == lookahead_point.y - c.y
        local_x == Quot(dx * CosMilli(-c.angle) - dy * SinMilli(-c.angle), 1000)
        local_y == Quot(dx * SinMilli(-c.angle) + dy * CosMilli(-c.angle), 1000)
        sin_alpha == SinOfArctan2(local_y, local_x)
        steering_angle_deg ==
            Arctan2Deg(Quot(2 * wheelbase * sin_alpha, 1000), lookahead_distance)
    IN Clip(steering_angle_deg, -CAR_MAX_STEERING, CAR_MAX_STEERING)

\* The value calculate_steering returns
SteeringValue(p, idx, c) ==
    IF p = <<>> THEN 0 ELSE SteeringToward(c, LookaheadPoint(p, idx, c))

\* Mutant: a pose exactly at the threshold counts as complete.
PathCompleteWithinInclusive(p, c, t) ==
    IF p = <<>> THEN TRUE
    ELSE Distance(c.x, c.y, p[Len(p)].x, p[Len(p)].y) <= t

\* PurePursuitController.is_path_complete(car, threshold)
PathCompleteWithin(p, c, t) ==
    IF p = <<>> THEN TRUE
    ELSE Distance(c.x, c.y, p[Len(p)].x, p[Len(p)].y) < t

\* PurePursuitController.is_path_complete, with its default threshold
IsPathComplete(p, c) == PathCompleteWithin(p, c, Px(complete_threshold_px))

\* The value calculate_speed returns for a non-empty path, in thousandths
SpeedValue(p, idx, c, target_speed) ==
    LET steering_angle == SteeringValue(p, idx, c)
        angle_factor == 1000 - Quot(Abs(steering_angle) * 500, CAR_MAX_STEERING)
        distance_to_goal == Distance(c.x, c.y, p[Len(p)].x, p[Len(p)].y)
    IN IF IsPathComplete(p, c) /\ distance_to_goal < Px(slow_down_px)
       THEN Quot(target_speed * Min(500, Quot(distance_to_goal * 1000, Px(slow_down_px))),
                 1000)
       ELSE Quot(target_speed * angle_factor, 1000)

\* PurePursuitController.set_path
SetPath(p) ==
    /\ path' = p
    /\ current_waypoint_index' = 0
    /\ lastOp' = "set_path"
    /\ ret' = 0
    /\ raised' = FALSE
    /\ UNCHANGED <<car, threshold, environment, plannerVars, segmentVars, restVars>>

\* PurePursuitController.calculate_steering
CalculateSteering(c) ==
    /\ car' = c
    /\ lastOp' = "calculate_steering"
    /\ ret' = SteeringValue(path, current_waypoint_index, c)
    /\ raised' = FALSE
    /\ current_waypoint_index' =
           IF path = <<>> THEN current_waypoint_index
           ELSE IndexAfterLookahead(path, current_waypoint_index, c)
    /\ UNCHANGED <<path, threshold, environment, plannerVars, segmentVars, restVars>>

\* PurePursuitController.calculate_speed; with an empty path is_path_complete is
\* true and self.path[-1] raises IndexError.
CalculateSpeed(c, target_speed) ==
    /\ car' = c
    /\ lastOp' = "calculate_speed"
    /\ IF path = <<>>
       THEN /\ raised' = TRUE
            /\ UNCHANGED <<ret, current_waypoint_index>>
       ELSE /\ raised' = FALSE
            /\ ret' = SpeedValue(path, current_waypoint_index, c, target_speed)
            /\ current_waypoint_index' =
                   IndexAfterLookahead(path, current_waypoint_index, c)
    /\ UNCHANGED <<path, threshold, environment, plannerVars, segmentVars, restVars>>

\* PurePursuitController.is_path_complete: a predicate of the path and the pose;
\* it assigns nothing.
IsPathCompleteCall(c, t) ==
    /\ car' = c
    /\ threshold' = t
    /\ lastOp' = "is_path_complete"
    /\ ret' = PathCompleteWithin(path, c, t)
    /\ raised' = FALSE
    /\ UNCHANGED <<path, current_waypoint_index, environment, plannerVars, segmentVars,
                   restVars>>

\* Mutant: only the empty path is answered without dividing.
ProgressOutcomeUnguarded(p, idx) ==
    IF p = <<>> THEN [raised |-> FALSE, value |-> 1000]
    ELSE IF Len(p) - 1 = 0 THEN [raised |-> TRUE, value |-> 0]
    ELSE [raised |-> FALSE, value |-> Quot(1000 * idx, Len(p) - 1)]

\* What get_progress does: the fraction it returns, in thousandths, or the
\* ZeroDivisionError of a division by len(path) - 1 = 0
ProgressOutcome(p, idx) ==
    IF p = <<>> \/ Len(p) <= 1 THEN [raised |-> FALSE, value |-> 1000]
    ELSE IF Len(p) - 1 = 0 THEN [raised |-> TRUE, value |-> 0]
    ELSE [raised |-> FALSE, value |-> Quot(1000 * idx, Len(p) - 1)]

\* PurePursuitController.get_progress; its pose argument is not read
GetProgress ==
    LET o == ProgressOutcome(path, current_waypoint_index)
    IN /\ lastOp' = "get_progress"
       /\ raised' = o.raised
       /\ ret' = o.value
       /\ UNCHANGED <<car, path, current_waypoint_index, threshold, environment,
                      plannerVars, segmentVars, restVars>>

\* Thresholds handed to is_path_complete, in pixels; 50 is the default
Thresholds == {40, complete_threshold_px}

\* Paths handed to set_path
Paths ==
    { <<>>,
      << Pt(40, 30) >>,
      << Pt(40, 30), Pt(60, 30), Pt(80, 30), Pt(100, 30), Pt(120, 30) >>,
      << Pt(40, 30), Pt(80, 30), Pt(80, 70), Pt(80, 110) >>,
      << Pt(40, 100), Pt(60, 100), Pt(80, 100) >> }

\* Vehicle poses handed to the controller
Poses ==
    { [x |-> Px(px), y |-> Px(py), angle |-> a] :
          px \in {40, 80, 125}, py \in {30, 100}, a \in {0, 90, 180, -90, 30, -135} }

\* Vehicle poses handed to is_path_complete, which reads the position only
CompletionPoses == {c \in Poses : c.angle = 0}

FollowerSpecInit ==
    /\ environment = Environment(200, 200, <<>>)
    /\ PlannerInit
    /\ FollowerInit
    /\ SegmentIdle
    /\ RestIdle

FollowerNext ==
    \/ \E p \in Paths : SetPath(p)
    \/ \E c \in Poses : CalculateSteering(c)
    \/ \E c \in Poses : CalculateSpeed(c, CAR_MAX_SPEED)
    \/ \E c \in CompletionPoses : \E t \in Thresholds : IsPathCompleteCall(c, Px(t))
    \/ GetProgress

FollowerSpec == FollowerSpecInit /\ [][FollowerNext]_vars

(***************************************************************************)
(* Properties of the path follower                                         *)
(***************************************************************************)
\* C4: between two set_path calls current_waypoint_index never decreases, for
\* any sequence of poses handed to calculate_steering and calculate_speed.
C4_IndexNeverDecreases ==
    [][lastOp' # "set_path" => current_waypoint_index' >= current_waypoint_index]_vars

\* C8: calculate_steering returns a value within [-max_steering, max_steering],
\* and 0 when the path is empty.
C8_SteeringBounded ==
    lastOp = "calculate_steering" =>
        /\ ret >= -CAR_MAX_STEERING
        /\ ret <= CAR_MAX_STEERING
        /\ path = <<>> => ret = 0

\* calculate_steering has returned the largest angle for a path with waypoints.
C8_Witness ==
    /\ lastOp = "calculate_steering"
    /\ path # <<>>
    /\ Abs(ret) = CAR_MAX_STEERING

\* The speed C15 states for a path with waypoints: the turn-scaled target speed,
\* scaled once more by min(0.5, distance / 100) near the end of a completed path.
C15_StatedSpeed(p, idx, c, target_speed) ==
    LET steering_angle == SteeringValue(p, idx, c)
        turn_scaled ==
            Quot(target_speed * (1000 - Quot(Abs(steering_angle) * 500, CAR_MAX_STEERING)),
                 1000)
        distance_to_goal == Distance(c.x, c.y, p[Len(p)].x, p[Len(p)].y)
    IN IF IsPathComplete(p, c) /\ distance_to_goal < Px(slow_down_px)
       THEN Quot(turn_scaled * Min(500, Quot(distance_to_goal * 1000, Px(slow_down_px))),
                 1000)
       ELSE turn_scaled

\* C15: calculate_speed returns target_speed * (1 - 0.5 * |steering| / max_steering),
\* and on a completed path within 100 of the final waypoint that turn-scaled value
\* times min(0.5, distance / 100).
C15_SpeedFormula ==
    [][(lastOp' = "calculate_speed" /\ ~raised') =>
          ret' = C15_StatedSpeed(path, current_waypoint_index, car', CAR_MAX_SPEED)]_vars

\* C16: calculate_speed returns a speed and never raises, for every controller
\* state and pose, a controller without path or with an empty path included.
C16_CalculateSpeedReturns == lastOp = "calculate_speed" => ~raised

\* The final waypoint of a path with waypoints
FinalWaypoint(p) == p[Len(p)]

\* C21: is_path_complete(pose, threshold) is true exactly when the pose is strictly
\* nearer than threshold to the final waypoint of the path, so it is true for any
\* positive threshold when the pose is on the final waypoint; the call changes
\* neither the path nor the waypoint index.
C21_CompleteIffNear ==
    (lastOp = "is_path_complete" /\ path # <<>>) =>
        /\ ret = (Distance(car.x, car.y, FinalWaypoint(path).x, FinalWaypoint(path).y)
                      < threshold)
        /\ (car.x = FinalWaypoint(path).x /\ car.y = FinalWaypoint(path).y
               /\ threshold > 0) => ret
        /\ ~raised

C21_ReadOnly ==
    lastOp' = "is_path_complete" => UNCHANGED <<path, current_waypoint_index>>

C21_IsPathComplete == [](C21_CompleteIffNear) /\ [][C21_ReadOnly]_vars

\* is_path_complete has answered no for a pose exactly threshold away from the
\* final waypoint, with the waypoint index advanced before the call.
C21_Witness ==
    /\ lastOp = "is_path_complete"
    /\ path # <<>>
    /\ threshold > 0
    /\ Distance(car.x, car.y, FinalWaypoint(path).x, FinalWaypoint(path).y) = threshold
    /\ ret = FALSE
    /\ current_waypoint_index > 0

\* C22: after any sequence of set_path, calculate_steering and calculate_speed
\* calls get_progress returns current_waypoint_index / (len(path) - 1), a value
\* within [0, 1], and 1.0 for a path of length 0 or 1, never dividing by zero.
C22_ProgressInUnitInterval ==
    lastOp = "get_progress" =>
        /\ ~raised
        /\ ret >= 0
        /\ ret <= 1000
        /\ Len(path) <= 1 => ret = 1000
        /\ Len(path) >= 2 =>
               /\ ret * (Len(path) - 1) <= 1000 * current_waypoint_index
               /\ (ret + 1) * (Len(path) - 1) > 1000 * current_waypoint_index

\* get_progress has returned a fraction strictly between 0 and 1.
C22_Witness ==
    /\ lastOp = "get_progress"
    /\ Len(path) >= 2
    /\ ret > 0
    /\ ret < 1000

\* C27: with a path of at least two waypoints current_waypoint_index stays within
\* 0 .. len(path) - 2 after any sequence of set_path, calculate_steering and
\* calculate_speed calls, so get_progress never returns 1.0 for such a path.
C27_IndexBelowFinal ==
    Len(path) >= 2 =>
        /\ current_waypoint_index >= 0
        /\ current_waypoint_index <= Len(path) - 2
        /\ lastOp = "get_progress" => ret < 1000

\* calculate_steering has run for a vehicle standing on the final waypoint, and
\* the index is the one before the final waypoint's.
C27_Witness ==
    /\ lastOp = "calculate_steering"
    /\ Len(path) >= 2
    /\ car.x = FinalWaypoint(path).x
    /\ car.y = FinalWaypoint(path).y
    /\ current_waypoint_index = Len(path) - 2

(***************************************************************************)
(* The sampled segment test on its own                                     *)
(***************************************************************************)
SegmentEnvironments ==
    { Environment(200, 200, <<>>),
      Environment(200, 200, << CircleObstacle(100, 100, 10) >>),
      Environment(200, 200, << Obstacle(90, 80, 20, 40) >>) }

\* End points of the segments tested
SegmentEnds ==
    { Pt(px, py) : px \in {0, 28, 50, 100, 120, 150, 158}, py \in {0, 30, 50, 68, 100} }

\* The arguments of one call of _is_path_clear are drawn at the start.
SegmentSpecInit ==
    /\ environment \in SegmentEnvironments
    /\ PlannerInit
    /\ FollowerInit
    /\ seg \in { [x1 |-> a.x, y1 |-> a.y, x2 |-> b.x, y2 |-> b.y, checked |-> FALSE] :
                     a \in SegmentEnds, b \in SegmentEnds }
    /\ clear = FALSE
    /\ RestIdle

\* The call _is_path_clear(x1, y1, x2, y2) on the drawn arguments
CheckSegment ==
    /\ ~seg.checked
    /\ seg' = [seg EXCEPT !.checked = TRUE]
    /\ clear' = IsPathClear(environment, seg.x1, seg.y1, seg.x2, seg.y2)
    /\ UNCHANGED <<environment, plannerVars, followerVars, restVars>>

SegmentNext == CheckSegment

SegmentSpec == SegmentSpecInit /\ [][SegmentNext]_vars

(***************************************************************************)
(* Properties of the segment test                                          *)
(***************************************************************************)
\* A finer sampling of a segment than the test's own, to tell where it passes.
FineChecks == 10 * num_checks
SegmentPoints == { SamplePoint(seg.x1, seg.y1, seg.x2, seg.y2, j, FineChecks) : j \in 0..FineChecks }
TestedPoints == { SamplePoint(seg.x1, seg.y1, seg.x2, seg.y2, i, num_checks) : i \in 0..num_checks }

\* p lies in the interior of the obstacle inflated by r: a circle of radius
\* obstacle radius + r, a rectangle widened by r on all four sides.
InInflated(p, o, r) ==
    IF o.kind = "circle"
    THEN (p.x - o.x) * (p.x - o.x) + (p.y - o.y) * (p.y - o.y) < (o.radius + r) * (o.radius + r)
    ELSE /\ o.x - r < p.x /\ p.x < o.x + o.width + r
         /\ o.y - r < p.y /\ p.y < o.y + o.height + r

InWorkspace(env, p) == p.x >= 0 /\ p.x <= env.width /\ p.y >= 0 /\ p.y <= env.height
InInsetWorkspace(env, p) ==
    /\ p.x >= car_radius /\ p.x <= env.width - car_radius
    /\ p.y >= car_radius /\ p.y <= env.height - car_radius
NearSomeObstacle(env, p) ==
    \E k \in 1..Len(env.obstacles) : InInflated(p, env.obstacles[k], car_radius)

\* p lies in the inflated obstacle or on the edge of an inflated rectangle.
OnInflated(p, o, r) ==
    IF o.kind = "circle"
    THEN (p.x - o.x) * (p.x - o.x) + (p.y - o.y) * (p.y - o.y) < (o.radius + r) * (o.radius + r)
    ELSE /\ o.x - r <= p.x /\ p.x <= o.x + o.width + r
         /\ o.y - r <= p.y /\ p.y <= o.y + o.height + r
TouchesSomeObstacle(env, p) ==
    \E k \in 1..Len(env.obstacles) : OnInflated(p, env.obstacles[k], car_radius)

\* C9 as stated: a segment lying entirely in open space (inside the workspace,
\* away from every obstacle) is reported clear, such as (0,0)->(100,0) in an
\* obstacle-free 200x200 workspace.
C9_OpenSpaceIsClear ==
    (seg.checked /\ \A p \in SegmentPoints :
                        InWorkspace(environment, p) /\ ~TouchesSomeObstacle(environment, p))
        => clear

\* C9 amended: a segment whose points all lie inside the workspace inset by the
\* clearance radius and touch no inflated obstacle is reported clear, such as
\* (50,50)->(150,50) in an obstacle-free 200x200 workspace.
C9_InsetOpenSpaceIsClear ==
    (seg.checked /\ \A p \in SegmentPoints :
                        InInsetWorkspace(environment, p) /\ ~TouchesSomeObstacle(environment, p))
        => clear

\* The segment (50,50)->(150,50) of the obstacle-free workspace was found clear.
C9_Witness ==
    /\ seg = [x1 |-> Px(50), y1 |-> Px(50), x2 |-> Px(150), y2 |-> Px(50), checked |-> TRUE]
    /\ environment.obstacles = <<>>
    /\ clear

\* C10 as stated: every segment that passes through the interior of an inflated
\* obstacle is reported not clear.
C10_ThroughObstacleIsBlocked ==
    (seg.checked /\ \E p \in SegmentPoints : NearSomeObstacle(environment, p)) => ~clear

\* C10 amended: every segment one of whose num_checks + 1 equally spaced sample
\* points lies in the interior of an inflated obstacle is reported not clear.
C10_SampleInObstacleIsBlocked ==
    (seg.checked /\ \E p \in TestedPoints : NearSomeObstacle(environment, p)) => ~clear

\* A segment with both ends in free space was rejected for a sample inside an
\* inflated obstacle.
C10_Witness ==
    /\ seg.checked
    /\ ~clear
    /\ \A p \in TestedPoints : InInsetWorkspace(environment, p)
    /\ \E p \in TestedPoints : NearSomeObstacle(environment, p)
    /\ ~NearSomeObstacle(environment, [x |-> seg.x1, y |-> seg.y1])
    /\ ~NearSomeObstacle(environment, [x |-> seg.x2, y |-> seg.y2])

(***************************************************************************)
(* The car: Ackermann kinematics (Car.update)                              *)
(***************************************************************************)
\* Car.track_width = width * 0.9, in 1/Unit pixel
track_width == (Px(CAR_WIDTH) * 9) \div 10

\* Quotient rounded toward zero, for a divisor of either sign.
Div(a, b) == IF b > 0 THEN Quot(a, b) ELSE Quot(-a, -b)

\* np.tan of an angle in whole degrees within (-90, 90), in thousandths
TanMilli(deg) ==
    IF deg = 0 THEN 0 ELSE IF deg > 0 THEN TanTable[deg] ELSE -TanTable[-deg]

\* turning_radius = wheelbase / tan(delta), in 1/Unit pixel, for delta # 0
TurningRadius(steering_angle) == Div(wheelbase * 1000, TanMilli(steering_angle))

\* Mutant: a car counts as moving at any speed but zero.
IsMovingAnySpeed(velocity) == Abs(velocity) > 0

\* abs(self.velocity) > 0.1
IsMoving(velocity) == Abs(velocity) > 100

\* Mutant: the remainder keeps the sign of the dividend, as C's fmod does.
WrapHeadingTruncated(a) ==
    LET b == a + 180000
    IN (IF b >= 0 THEN b % 360000 ELSE -((-b) % 360000)) - 180000

\* (self.angle + 180) % 360 - 180, in thousandths of a degree; Python's remainder
\* has the sign of the divisor.
WrapHeading(a) == ((a + 180000) % 360000) - 180000

\* The wheel velocities and np.degrees(angular_velocity) of a moving car, lines
\* 139-164; a whole-degree steering angle exceeds 0.001 rad unless it is 0.
Ackermann(velocity, steering_angle) ==
    IF steering_angle # 0
    THEN LET turning_radius == TurningRadius(steering_angle)
             inner_radius == turning_radius - track_width \div 2
             outer_radius == turning_radius + track_width \div 2
         IN [left |-> IF turning_radius > 0
                      THEN Div(velocity * inner_radius, turning_radius)
                      ELSE Div(velocity * outer_radius, Abs(turning_radius)),
             right |-> IF turning_radius > 0
                       THEN Div(velocity * outer_radius, turning_radius)
                       ELSE Div(velocity * inner_radius, Abs(turning_radius)),
             turn |-> Div(velocity * 57296, 50 * turning_radius)]
    ELSE [left |-> velocity, right |-> velocity, turn |-> 0]

\* The car after Car.update(dt = 1.0).  Sine and cosine are taken at the heading
\* cut to whole degrees.  The tire-mark particles are drawing state and are left out.
Updated(v) ==
    IF IsMoving(v.velocity)
    THEN LET a == Ackermann(v.velocity, v.steering_angle)
             theta == Quot(v.angle, 1000)
         IN [v EXCEPT !.left_wheel_velocity = a.left,
                      !.right_wheel_velocity = a.right,
                      !.x = v.x + Quot(v.velocity * CosMilli(theta) * Unit, 1000000),
                      !.y = v.y + Quot(v.velocity * SinMilli(theta) * Unit, 1000000),
                      !.angle = WrapHeading(v.angle + a.turn)]
    ELSE [v EXCEPT !.left_wheel_velocity = 0, !.right_wheel_velocity = 0]

\* Car.update
Update ==
    /\ updates < MaxUpdates
    /\ updates' = updates + 1
    /\ vehicle' = Updated(vehicle)
    /\ carOp' = "update"
    /\ UNCHANGED <<environment, plannerVars, followerVars, segmentVars, scanVars, simVars,
                   observerVars, randomVars, smooth>>

\* Headings a Car is constructed with, in thousandths of a degree
Headings == { 0, 90000, 180000, -180000, 175000, -177000, -90000 }

\* Velocities the control methods reach from 0
Velocities == { 0, 100, -100, -50, 200, 600, 2500, -1250 }

\* Steering angles the control methods reach from 0
Steerings == { 0, 3, -3, 30, 45, -45 }

\* Wheel velocities left by an earlier update: none, or that of a straight run
WheelVelocities == { 0, 600 }

KinematicSpecInit ==
    /\ environment = Environment(200, 200, <<>>)
    /\ PlannerInit
    /\ FollowerInit
    /\ SegmentIdle
    /\ ObserverIdle
    /\ RandomIdle
    /\ SmoothIdle
    /\ ScanIdle
    /\ SimulationInit
    /\ carOp = "init"
    /\ updates = 0
    /\ vehicle \in { [Car(Px(CAR_START_X), Px(CAR_START_Y), h)
                          EXCEPT !.velocity = v, !.steering_angle = s,
                                 !.left_wheel_velocity = w, !.right_wheel_velocity = w] :
                         h \in Headings, v \in Velocities, s \in Steerings,
                         w \in WheelVelocities }

KinematicNext == Update

KinematicSpec == KinematicSpecInit /\ [][KinematicNext]_vars

(***************************************************************************)
(* Properties of Car.update                                                *)
(***************************************************************************)
\* C11 as stated: after every Car.update call that moves the vehicle the heading
\* lies in (-180, 180] degrees, so it is never exactly -180.
C11_HeadingHalfOpen ==
    (carOp = "update" /\ IsMoving(vehicle.velocity)) =>
        (vehicle.angle > -180000 /\ vehicle.angle <= 180000)

\* C11 amended: after every Car.update call that moves the vehicle the heading
\* lies in [-180, 180] degrees; -180 is included.
C11_HeadingWrapped ==
    (carOp = "update" /\ IsMoving(vehicle.velocity)) =>
        (vehicle.angle >= -180000 /\ vehicle.angle <= 180000)

\* A moving update has left the heading at exactly -180 degrees.
C11_Witness ==
    /\ carOp = "update"
    /\ IsMoving(vehicle.velocity)
    /\ vehicle.angle = -180000

\* C12: Car.update with |speed| <= 0.1 leaves x, y and the heading unchanged and
\* sets both wheel speeds to 0, whatever the steering angle and the previous
\* wheel speeds.
C12_StationaryUpdate ==
    [][(carOp' = "update" /\ Abs(vehicle.velocity) <= 100) =>
          /\ vehicle'.x = vehicle.x
          /\ vehicle'.y = vehicle.y
          /\ vehicle'.angle = vehicle.angle
          /\ vehicle'.left_wheel_velocity = 0
          /\ vehicle'.right_wheel_velocity = 0]_vars

\* A car at speed 0.1 with a turned steering wheel has been updated and its wheel
\* speeds are 0.
C12_Witness ==
    /\ carOp = "update"
    /\ vehicle.velocity = 100
    /\ vehicle.steering_angle = 45
    /\ vehicle.left_wheel_velocity = 0
    /\ vehicle.right_wheel_velocity = 0
    /\ vehicle.x = Px(CAR_START_X)

\* The sign of a number: -1, 0 or 1
Sign(a) == IF a > 0 THEN 1 ELSE IF a < 0 THEN -1 ELSE 0

\* C24: for a moving car with a steering angle other than 0 and turning radius
\* R = wheelbase / tan(steering), Car.update sets the left wheel speed to
\* speed * (R - track_width / 2) / R and the right one to
\* speed * (R + track_width / 2) / R, for either sign of R, so with
\* |R| > track_width / 2 both wheel speeds have the sign of the speed.
C24_WheelSpeeds ==
    (carOp = "update" /\ IsMoving(vehicle.velocity) /\ vehicle.steering_angle # 0) =>
        LET R == TurningRadius(vehicle.steering_angle)
        IN /\ vehicle.left_wheel_velocity =
                  Div(vehicle.velocity * (R - track_width \div 2), R)
           /\ vehicle.right_wheel_velocity =
                  Div(vehicle.velocity * (R + track_width \div 2), R)
           /\ Abs(R) > track_width \div 2 =>
                  /\ Sign(vehicle.left_wheel_velocity) = Sign(vehicle.velocity)
                  /\ Sign(vehicle.right_wheel_velocity) = Sign(vehicle.velocity)

(***************************************************************************)
(* The car's control methods and the autonomous control tick               *)
(***************************************************************************)
\* Car.accelerate
Accelerated(velocity) == Min(velocity + CAR_ACCELERATION, CAR_MAX_SPEED)

\* Car.brake
Braked(velocity) ==
    IF velocity > 0 THEN Max(velocity - CAR_DECELERATION, 0)
    ELSE IF velocity < 0 THEN Min(velocity + CAR_DECELERATION, 0)
    ELSE velocity

\* Mutant: reverse is capped at the full forward speed.
ReversedFullSpeed(velocity) == Max(velocity - CAR_ACCELERATION, -CAR_MAX_SPEED)

\* Car.reverse; max_speed * 0.5 is 1.25
Reversed(velocity) == Max(velocity - CAR_ACCELERATION, -(CAR_MAX_SPEED \div 2))

\* Car.steer_left
SteeredLeft(steering_angle) == Min(steering_angle + CAR_STEERING_SPEED, CAR_MAX_STEERING)

\* Car.steer_right
SteeredRight(steering_angle) == Max(steering_angle - CAR_STEERING_SPEED, -CAR_MAX_STEERING)

\* Mutant: the angle always moves by a full steering_speed toward the other side.
CenteredNoSnap(steering_angle) ==
    IF steering_angle > 0 THEN steering_angle - CAR_STEERING_SPEED
    ELSE IF steering_angle < 0 THEN steering_angle + CAR_STEERING_SPEED
    ELSE 0

\* Car.center_steering
Centered(steering_angle) ==
    IF Abs(steering_angle) < CAR_STEERING_SPEED THEN 0
    ELSE IF steering_angle > 0 THEN steering_angle - CAR_STEERING_SPEED
    ELSE steering_angle + CAR_STEERING_SPEED

\* Mutant: the desired steering angle is applied at once.
AutonomousSteeringSnap(steering_angle, desired_steering) == desired_steering

\* autonomous_control, lines 299-306
AutonomousSteering(steering_angle, desired_steering) ==
    LET steering_diff == desired_steering - steering_angle
    IN IF Abs(steering_diff) < CAR_STEERING_SPEED THEN desired_steering
       ELSE IF steering_diff > 0 THEN SteeredLeft(steering_angle)
       ELSE SteeredRight(steering_angle)

\* autonomous_control, lines 308-312
AutonomousSpeed(velocity, desired_speed) ==
    IF Abs(velocity) < desired_speed - 500 THEN Accelerated(velocity)
    ELSE IF Abs(velocity) > desired_speed + 500 THEN Braked(velocity)
    ELSE velocity

\* The pose the path follower reads from the car: the heading in whole degrees
Pose(v) == [x |-> v.x, y |-> v.y, angle |-> Quot(v.angle, 1000)]

\* What a control method leaves alone
ControlFrame ==
    UNCHANGED <<updates, environment, plannerVars, followerVars, segmentVars, scanVars,
                simVars, observerVars, randomVars, smooth>>

Accelerate ==
    /\ vehicle' = [vehicle EXCEPT !.velocity = Accelerated(vehicle.velocity)]
    /\ carOp' = "control"
    /\ ControlFrame

Brake ==
    /\ vehicle' = [vehicle EXCEPT !.velocity = Braked(vehicle.velocity)]
    /\ carOp' = "control"
    /\ ControlFrame

Reverse_ ==
    /\ vehicle' = [vehicle EXCEPT !.velocity = Reversed(vehicle.velocity)]
    /\ carOp' = "control"
    /\ ControlFrame

SteerLeft ==
    /\ vehicle' = [vehicle EXCEPT !.steering_angle = SteeredLeft(vehicle.steering_angle)]
    /\ carOp' = "control"
    /\ ControlFrame

SteerRight ==
    /\ vehicle' = [vehicle EXCEPT !.steering_angle = SteeredRight(vehicle.steering_angle)]
    /\ carOp' = "control"
    /\ ControlFrame

CenterSteering ==
    /\ vehicle' = [vehicle EXCEPT !.steering_angle = Centered(vehicle.steering_angle)]
    /\ carOp' = "control"
    /\ ControlFrame

\* Simulation.autonomous_control, with the planned path the one the path follower
\* holds: brake on an empty or completed path, else one calculate_steering and one
\* calculate_speed call, then the steering and speed updates.
AutonomousControl ==
    LET c == Pose(vehicle)
    IN /\ carOp' = "control"
       /\ IF path = <<>> \/ IsPathComplete(path, c)
          THEN /\ vehicle' = [vehicle EXCEPT !.velocity = Braked(vehicle.velocity)]
               /\ UNCHANGED followerVars
          ELSE LET desired_steering == SteeringValue(path, current_waypoint_index, c)
                   index_1 == IndexAfterLookahead(path, current_waypoint_index, c)
                   desired_speed == SpeedValue(path, index_1, c, CAR_MAX_SPEED)
               IN /\ vehicle' =
                        [vehicle EXCEPT
                           !.steering_angle =
                               AutonomousSteering(vehicle.steering_angle, desired_steering),
                           !.velocity = AutonomousSpeed(vehicle.velocity, desired_speed)]
                  /\ current_waypoint_index' = IndexAfterLookahead(path, index_1, c)
                  /\ car' = c
                  /\ lastOp' = "calculate_speed"
                  /\ ret' = desired_speed
                  /\ raised' = FALSE
                  /\ UNCHANGED <<path, threshold>>
       /\ UNCHANGED <<updates, environment, plannerVars, segmentVars, scanVars, simVars,
                      observerVars, randomVars, smooth>>

\* Paths planned from the start pose (70, 70), heading 0
ControlPaths ==
    { <<>>,
      << Pt(70, 70), Pt(90, 70) >>,
      << Pt(70, 70), Pt(70, 110), Pt(70, 150) >>,
      << Pt(70, 70), Pt(110, 60), Pt(150, 50) >> }

ControlSpecInit ==
    /\ environment = Environment(200, 200, <<>>)
    /\ PlannerInit
    /\ FollowerInit
    /\ SegmentIdle
    /\ RestIdle

ControlNext ==
    \/ \E p \in ControlPaths : SetPath(p)
    \/ Accelerate
    \/ Brake
    \/ Reverse_
    \/ SteerLeft
    \/ SteerRight
    \/ CenterSteering
    \/ AutonomousControl

ControlSpec == ControlSpecInit /\ [][ControlNext]_vars

(***************************************************************************)
(* Properties of the controls                                              *)
(***************************************************************************)
\* C13: starting from speed 0, after any sequence of accelerate, brake and reverse
\* calls, manual or autonomous, the speed stays within [-0.5 * max_speed, max_speed].
C13_SpeedBounded ==
    /\ vehicle.velocity >= -(CAR_MAX_SPEED \div 2)
    /\ vehicle.velocity <= CAR_MAX_SPEED

\* reverse has held the speed at -0.5 * max_speed.
C13_Witness ==
    /\ carOp = "control"
    /\ vehicle.velocity = -(CAR_MAX_SPEED \div 2)

C14_SteeringInRange ==
    /\ vehicle.steering_angle >= -CAR_MAX_STEERING
    /\ vehicle.steering_angle <= CAR_MAX_STEERING

C14_SteeringRate ==
    Abs(vehicle'.steering_angle - vehicle.steering_angle) <= CAR_STEERING_SPEED

\* C14: starting from steering angle 0, after any sequence of steer_left,
\* steer_right, center_steering and autonomous steering updates the steering angle
\* stays within [-max_steering, max_steering] and changes by at most steering_speed
\* in a single tick.
C14_SteeringBoundedAndRateLimited ==
    [](C14_SteeringInRange) /\ [][C14_SteeringRate]_vars

\* The autonomous update has brought the steering angle to max_steering.
C14_Witness ==
    /\ carOp = "control"
    /\ lastOp = "calculate_speed"
    /\ vehicle.steering_angle = CAR_MAX_STEERING

\* A car whose steering wheel is released at any angle the controls allow
CenterSpecInit ==
    /\ environment = Environment(200, 200, <<>>)
    /\ PlannerInit
    /\ FollowerInit
    /\ SegmentIdle
    /\ \E a \in (-CAR_MAX_STEERING)..CAR_MAX_STEERING :
           vehicle = [Car(Px(CAR_START_X), Px(CAR_START_Y), CAR_START_ANGLE)
                        EXCEPT !.steering_angle = a]
    /\ carOp = "init"
    /\ updates = 0
    /\ ObserverIdle
    /\ RandomIdle
    /\ SmoothIdle
    /\ ScanIdle
    /\ SimulationInit

\* manual_control with no steering key held, tick after tick
CenterNext == CenterSteering

CenterSpec == CenterSpecInit /\ [][CenterNext]_vars

\* The number of center_steering calls C25 allows for an angle:
\* ceil(|angle| / steering_speed)
CallsToCenter(steering_angle) ==
    (Abs(steering_angle) + CAR_STEERING_SPEED - 1) \div CAR_STEERING_SPEED

C25_CenterStep ==
    CenterSteering =>
        LET a == vehicle.steering_angle
            b == vehicle'.steering_angle
        IN /\ Abs(a) < CAR_STEERING_SPEED => b = 0
           /\ Abs(a) >= CAR_STEERING_SPEED =>
                  /\ Abs(b) = Abs(a) - CAR_STEERING_SPEED
                  /\ Sign(b) \in {0, Sign(a)}
           /\ Abs(b) <= Abs(a)
           /\ a * b >= 0
           /\ CallsToCenter(b) = Max(CallsToCenter(a) - 1, 0)

\* C25: a center_steering call moves the steering angle toward 0 by steering_speed,
\* or sets it to 0 when its magnitude is below steering_speed; it never changes the
\* sign of the angle nor increases its magnitude, and it lowers
\* ceil(|angle| / steering_speed) by one until that is 0, so repeated calls reach 0
\* within that many calls and the angle then stays 0.
C25_CenterSteeringDecays == [][C25_CenterStep]_vars

\* center_steering has left an angle that is not 0 and is below steering_speed,
\* which the next call sets to 0.
C25_Witness ==
    /\ carOp = "control"
    /\ vehicle.steering_angle # 0
    /\ Abs(vehicle.steering_angle) < CAR_STEERING_SPEED

(***************************************************************************)
(* RRTPlanner.smooth_path                                                  *)
(***************************************************************************)
\* k = min(3, len(path) - 1), the degree handed to splprep
SplineDegree(p) == Min(3, Len(p) - 1)

\* len(u_new) for u_new = np.linspace(0, 1, len(path) * 5)
ResampleCount(p) == Len(p) * resample_factor

\* The k-th point splev returns: the fitted curve at u_new[k - 1], which is
\* (k - 1) / (count - 1).  Its coordinates are the library's and are not modelled.
CurvePoint(p, k) ==
    [degree |-> SplineDegree(p), u_num |-> k - 1, u_den |-> ResampleCount(p) - 1]

\* Mutant: a failure of the fit is not caught.
SmoothOutcomeUncaught(p, fit) ==
    IF Len(p) < 3 THEN [raised |-> FALSE, result |-> p]
    ELSE IF fit = "ok"
    THEN [raised |-> FALSE, result |-> [k \in 1..ResampleCount(p) |-> CurvePoint(p, k)]]
    ELSE [raised |-> TRUE, result |-> <<>>]

\* What smooth_path does with path p when the library's fit (splprep, then splev)
\* returns ("ok") or raises an Exception ("fails"), lines 276-301.
SmoothOutcome(p, fit) ==
    IF Len(p) < 3 THEN [raised |-> FALSE, result |-> p]
    ELSE IF fit = "ok"
    THEN [raised |-> FALSE, result |-> [k \in 1..ResampleCount(p) |-> CurvePoint(p, k)]]
    ELSE [raised |-> FALSE, result |-> p]

\* RRTPlanner.smooth_path(p); the fit is reached only with three points or more.
SmoothPath(p, fit) ==
    /\ LET o == SmoothOutcome(p, fit)
       IN smooth' = [path |-> p, fit |-> IF Len(p) < 3 THEN "none" ELSE fit,
                     called |-> TRUE, raised |-> o.raised, result |-> o.result]
    /\ UNCHANGED <<environment, plannerVars, followerVars, segmentVars, scanVars, simVars,
                   carVars, observerVars, randomVars>>

\* Waypoints of the paths handed to smooth_path; repeated waypoints are included
SmoothPoints == { Pt(40, 30), Pt(80, 30), Pt(80, 70) }

RECURSIVE SequencesUpTo(_, _)
SequencesUpTo(S, n) ==
    IF n = 0 THEN { <<>> }
    ELSE LET shorter == SequencesUpTo(S, n - 1)
         IN shorter \cup { Append(q, e) : q \in { r \in shorter : Len(r) = n - 1 }, e \in S }

SmoothInputs == SequencesUpTo(SmoothPoints, MaxSmoothLen)

SmoothSpecInit ==
    /\ environment = Environment(200, 200, <<>>)
    /\ PlannerInit
    /\ FollowerInit
    /\ SegmentIdle
    /\ RestIdle

SmoothNext == \E p \in SmoothInputs : \E fit \in {"ok", "fails"} : SmoothPath(p, fit)

SmoothSpec == SmoothSpecInit /\ [][SmoothNext]_vars

\* C17: smooth_path never raises and returns either its input unchanged (fewer than
\* 3 points, or the fit fails) or exactly 5 * len(path) points.
C17_SmoothPathTotal ==
    smooth.called =>
        /\ ~smooth.raised
        /\ (Len(smooth.path) < 3 \/ smooth.fit = "fails") => smooth.result = smooth.path
        /\ \/ smooth.result = smooth.path
           \/ Len(smooth.result) = 5 * Len(smooth.path)

\* A path of three waypoints was fitted and came back as fifteen points.
C17_Witness ==
    /\ smooth.called
    /\ smooth.fit = "ok"
    /\ Len(smooth.path) = 3
    /\ Len(smooth.result) = 15
    /\ ~smooth.raised

(***************************************************************************)
(* plan() with a visualization callback, in an open workspace              *)
(***************************************************************************)
\* Mutant: the progress callback is made on every iteration.
CadenceDueAlways(i) == TRUE

\* i % self.visualization_interval == 0
CadenceDue(i) == i % visualization_interval = 0

\* The dictionary of the progress callback, lines 136-142
ProgressSnapshot(i, ns, k, rand, g) ==
    [iteration |-> i, nodes |-> ns, new_node |-> k, random_point |-> rand, goal |-> g]

\* The dictionary of the final callback, lines 151-157
FinalSnapshot(i, ns, k, g) ==
    [iteration |-> i, nodes |-> ns, new_node |-> k, goal_reached |-> TRUE, goal |-> g]

\* The callbacks of iteration i, in order: added tells whether a node was appended,
\* reached whether it is within the goal threshold.
Callbacks(i, added, reached, ns, rand, g) ==
    (IF added /\ CadenceDue(i) THEN << ProgressSnapshot(i, ns, Len(ns), rand, g) >> ELSE <<>>)
    \o (IF added /\ reached THEN << FinalSnapshot(i, ns, Len(ns), g) >> ELSE <<>>)

\* plan() is called on a planner whose visualization_callback is set.
ObservedPlanBegin(s, g) ==
    /\ PlanBeginStep(s, g)
    /\ observed' = <<>>
    /\ goal_samples' = 0
    /\ UNCHANGED <<followerVars, segmentVars, scanVars, simVars, carVars, randomVars,
                   smooth>>

ObservedEnterLoop ==
    /\ EnterLoopStep
    /\ UNCHANGED <<followerVars, segmentVars, restVars>>

\* One iteration with the callbacks it makes.
ObservedIterate(coin, p) ==
    /\ iter < MaxObservedIterations
    /\ IterateStep(coin, p)
    /\ observed' = Callbacks(iter, new_node' # 0, planState' = "FOUND", nodes', sample', goal)
    /\ goal_samples' = IF coin THEN goal_samples + 1 ELSE goal_samples
    /\ UNCHANGED <<followerVars, segmentVars, scanVars, simVars, carVars, randomVars,
                   smooth>>

ObservedExhaust ==
    /\ iter >= MaxObservedIterations
    /\ ExhaustStep
    /\ UNCHANGED <<followerVars, segmentVars, restVars>>

\* (start, goal) of the plan() calls in the open workspace
OpenPlanCalls ==
    { << Pt(40, 30), Pt(110, 30) >>,
      << Pt(30, 100), Pt(115, 100) >>,
      << Pt(40, 30), Pt(55, 30) >> }

\* values random.uniform draws for (rand_x, rand_y)
OpenRandomPoints == { Pt(100, 100), Pt(10, 10), Pt(170, 40) }

ObservedSpecInit ==
    /\ environment = Environment(200, 200, <<>>)
    /\ PlannerInit
    /\ FollowerInit
    /\ SegmentIdle
    /\ RestIdle

ObservedNext ==
    \/ \E c \in OpenPlanCalls : ObservedPlanBegin(c[1], c[2])
    \/ ObservedEnterLoop
    \/ \E coin \in BOOLEAN : \E p \in OpenRandomPoints : ObservedIterate(coin, p)
    \/ ObservedExhaust

ObservedSpec == ObservedSpecInit /\ [][ObservedNext]_vars

(***************************************************************************)
(* Properties of the observed planner                                      *)
(***************************************************************************)
IsProgress(snapshot) == "random_point" \in DOMAIN snapshot
IsFinal(snapshot) == "goal_reached" \in DOMAIN snapshot

\* The index of the iteration that ran last (plan() returns inside the iteration
\* that reaches the goal, so i is not advanced then).
LastIteration == IF planState = "FOUND" THEN iter ELSE iter - 1

\* C18 as stated: the observer is invoked only on iterations whose index is a
\* multiple of K = 5, at most once per iteration, and every snapshot holds the
\* iteration index, the node list, the newly added node and the sample point.
C18_FixedCadence ==
    /\ Len(observed) <= 1
    /\ \A k \in DOMAIN observed :
           /\ observed[k].iteration % visualization_interval = 0
           /\ {"iteration", "nodes", "new_node", "random_point"} \subseteq DOMAIN observed[k]

\* C18 amended: a progress snapshot (iteration index, node list, newly added node,
\* sample point) is handed over on exactly the iterations whose index is a multiple
\* of K and that added a node, once; the iteration that reaches the goal, whatever
\* its index, hands over one more, final snapshot, which has the iteration index,
\* the node list and the new node but no sample point; nothing else is handed over.
C18_CadenceAndFinal ==
    IF planState \in {"IDLE", "INIT"} \/ LastIteration < 0 THEN observed = <<>>
    ELSE
        LET progress == { k \in DOMAIN observed : IsProgress(observed[k]) }
            final == { k \in DOMAIN observed : IsFinal(observed[k]) }
        IN /\ progress \cup final = DOMAIN observed
           /\ progress \cap final = {}
           /\ progress = IF new_node # 0 /\ LastIteration % visualization_interval = 0
                         THEN {1} ELSE {}
           /\ final = IF planState = "FOUND" THEN {Len(observed)} ELSE {}
           /\ planState = "FOUND" => observed # <<>>
           /\ \A k \in DOMAIN observed :
                  /\ observed[k].iteration = LastIteration
                  /\ observed[k].nodes = nodes
                  /\ observed[k].new_node = new_node
                  /\ new_node = Len(nodes)
                  /\ IsProgress(observed[k]) => observed[k].random_point = sample

\* Iteration 5 added a node and handed a progress snapshot to the observer.
C18_Witness ==
    /\ planState = "GROWING"
    /\ observed # <<>>
    /\ observed[1].iteration = visualization_interval
    /\ IsProgress(observed[1])

\* The smallest distance from a node of the tree to the goal
MinGoalDistance(ns, g) ==
    LET d(k) == Distance(ns[k].x, ns[k].y, g.x, g.y)
    IN d(CHOOSE k \in DOMAIN ns : \A j \in DOMAIN ns : d(k) <= d(j))

\* No obstacles, and start and goal within the bounds inset by the clearance radius
OpenWorkspace ==
    /\ environment.obstacles = <<>>
    /\ InInsetWorkspace(environment, start)
    /\ InInsetWorkspace(environment, goal)

\* A loop iteration is being taken.
IterationRuns == planState = "GROWING" /\ planState' \in {"GROWING", "FOUND"}

\* ceil((distance(start, goal) - goal_threshold) / step_size) + 1
GoalSampleBound == -((goal_threshold - Distance(start.x, start.y, goal.x, goal.y)) \div step_size) + 1

\* What the fixed-point quotients may lose in one step
RoundingSlack == Unit \div 10

C20_StepOK ==
    IterationRuns =>
        IF goal_samples' > goal_samples
        THEN /\ new_node' # 0
             /\ Abs(MinGoalDistance(nodes', goal) + step_size - MinGoalDistance(nodes, goal))
                    <= RoundingSlack
        ELSE MinGoalDistance(nodes', goal) <= MinGoalDistance(nodes, goal)

C20_BoundOK == planState \in {"GROWING", "EXHAUSTED"} => goal_samples < GoalSampleBound

\* C20 as stated: in an obstacle-free workspace with start and goal inside the inset
\* bounds, every goal-sampling iteration adds a node and lowers the minimum
\* tree-to-goal distance by step_size, other iterations never raise it, and plan is
\* FOUND after at most ceil((distance - goal_threshold) / step_size) + 1
\* goal-sampling iterations.
C20_GoalSamplingAdvances ==
    /\ [][OpenWorkspace => C20_StepOK]_vars
    /\ [](OpenWorkspace => C20_BoundOK)

StartFarFromGoal == Distance(start.x, start.y, goal.x, goal.y) >= step_size

\* C20 amended: the same, for a start at least step_size away from the goal.
C20_GoalSamplingAdvancesFromAfar ==
    /\ [][(OpenWorkspace /\ StartFarFromGoal) => C20_StepOK]_vars
    /\ []((OpenWorkspace /\ StartFarFromGoal) => C20_BoundOK)

\* From 85 away the goal was reached by the third goal-sampling iteration, which
\* is the stated bound.
C20_Witness ==
    /\ OpenWorkspace
    /\ StartFarFromGoal
    /\ planState = "FOUND"
    /\ goal_samples = GoalSampleBound
    /\ goal_samples = 3

(***************************************************************************)
(* plan() on a seeded random source                                        *)
(***************************************************************************)
\* Values random.random() returns, in thousandths; random.uniform(a, b) is
\* a + (b - a) * random().
RandomValues == { 100, 600 }

\* random.uniform(0, bound) for the value u of random.random()
Uniform(bound, u) == Quot(u * bound, 1000)

\* random.random() < self.goal_sample_rate
GoalCoin(r) == r < RRT_GOAL_SAMPLE_RATE

\* Mutant: y is drawn before x.
ConsumedYFirst(r, ux, uy) == IF GoalCoin(r) THEN << r >> ELSE << r, uy, ux >>

\* The values one iteration takes from the random source, in the order it takes
\* them, lines 116-120: the coin, then x, then y; x and y only without the goal.
Consumed(r, ux, uy) == IF GoalCoin(r) THEN << r >> ELSE << r, ux, uy >>

\* plan() is called after the random source was seeded: the first call starts a
\* new stream, a later call is made with the same arguments on the same stream.
SeededPlanBegin(s, g) ==
    /\ PlanBeginStep(s, g)
    /\ drawn' = 0
    /\ IF plan_calls = 0
       THEN /\ stream' = <<>>
            /\ UNCHANGED first_run
       ELSE /\ s = start
            /\ g = goal
            /\ first_run' = IF first_run.done THEN first_run
                            ELSE [done |-> TRUE, nodes |-> nodes, result |-> result]
            /\ UNCHANGED stream
    /\ UNCHANGED <<followerVars, segmentVars, scanVars, simVars, carVars, observerVars,
                   smooth>>

SeededEnterLoop ==
    /\ EnterLoopStep
    /\ UNCHANGED <<followerVars, segmentVars, restVars>>

\* One iteration whose random values are r, then ux and uy: the next values of the
\* stream where it has them, new values otherwise.
SeededIterate(r, ux, uy) ==
    /\ iter < MaxSeededIterations
    /\ LET consumed == Consumed(r, ux, uy)
       IN /\ \A k \in 1..Len(consumed) :
                 drawn + k <= Len(stream) => stream[drawn + k] = consumed[k]
          /\ stream' = IF drawn + Len(consumed) > Len(stream)
                       THEN SubSeq(stream, 1, drawn) \o consumed
                       ELSE stream
          /\ drawn' = drawn + Len(consumed)
    /\ IterateStep(GoalCoin(r), [x |-> Uniform(environment.width, ux),
                                 y |-> Uniform(environment.height, uy)])
    /\ UNCHANGED <<first_run, followerVars, segmentVars, scanVars, simVars, carVars,
                   observerVars, smooth>>

SeededExhaust ==
    /\ iter >= MaxSeededIterations
    /\ ExhaustStep
    /\ UNCHANGED <<followerVars, segmentVars, restVars>>

SeededPlanCalls ==
    { << Pt(40, 30), Pt(110, 30) >>,
      << Pt(30, 100), Pt(80, 100) >>,
      << Pt(100, 40), Pt(100, 170) >> }

SeededSpecInit ==
    /\ environment = Environment(200, 200, << Obstacle(90, 80, 20, 40) >>)
    /\ PlannerInit
    /\ FollowerInit
    /\ SegmentIdle
    /\ RestIdle

SeededNext ==
    \/ \E c \in SeededPlanCalls : SeededPlanBegin(c[1], c[2])
    \/ SeededEnterLoop
    \/ \E r \in RandomValues : \E ux \in RandomValues : \E uy \in RandomValues :
           SeededIterate(r, ux, uy)
    \/ SeededExhaust

SeededSpec == SeededSpecInit /\ [][SeededNext]_vars

(***************************************************************************)
(* Properties of the seeded planner                                        *)
(***************************************************************************)
\* A second run on the same stream has ended as the first did.
C19_SameOutcome ==
    (first_run.done /\ planState \in {"FOUND", "EXHAUSTED"}) =>
        /\ nodes = first_run.nodes
        /\ result = first_run.result

\* An iteration takes the coin first, then x, then y, and x and y only when the
\* coin did not select the goal.
C19_DrawOrder ==
    IterationRuns =>
        IF stream'[drawn + 1] < RRT_GOAL_SAMPLE_RATE
        THEN /\ drawn' = drawn + 1
             /\ sample' = goal
        ELSE /\ drawn' = drawn + 3
             /\ sample' = [x |-> Quot(stream'[drawn + 2] * environment.width, 1000),
                           y |-> Quot(stream'[drawn + 3] * environment.height, 1000)]

\* C19: two plan() runs with the same environment, start, goal and stream of random
\* values build the same tree and return the same result, and every iteration
\* draws the goal-bias coin first, then x, then y, the last two only when the coin
\* did not select the goal.
C19_DeterministicInStream == [](C19_SameOutcome) /\ [][C19_DrawOrder]_vars

\* The second run on a stream with random samples has found the path of the first.
C19_Witness ==
    /\ first_run.done
    /\ planState = "FOUND"
    /\ result = first_run.result
    /\ Len(nodes) >= 3
    /\ drawn = Len(stream)
    /\ \E k \in DOMAIN stream : stream[k] >= RRT_GOAL_SAMPLE_RATE

(***************************************************************************)
(* _get_nearest_node on its own                                            *)
(***************************************************************************)
\* Positions of tree nodes and of the samples
TreePoints == { Pt(40, 30), Pt(90, 30), Pt(40, 80), Pt(65, 55) }
SamplePoints == { Pt(65, 55), Pt(65, 30), Pt(40, 55), Pt(100, 100) }

RECURSIVE ChainTree(_)
\* The tree plan() grows when every node is added from the node before it
ChainTree(points) ==
    IF Len(points) = 1 THEN << Node(points[1].x, points[1].y) >>
    ELSE LET n == Len(points)
             ns == ChainTree(SubSeq(points, 1, n - 1))
         IN Append(ns, [x |-> points[n].x, y |-> points[n].y, parent |-> n - 1,
                        cost |-> NewCost(ns[n - 1], points[n].x, points[n].y)])

\* Trees of up to MaxTreeLen nodes at distinct positions
Trees ==
    { ChainTree(q) : q \in { r \in SequencesUpTo(TreePoints, MaxTreeLen) :
                               /\ Len(r) >= 1
                               /\ \A a, b \in 1..Len(r) : a # b => r[a] # r[b] } }

NearestSpecInit ==
    /\ environment = Environment(200, 200, <<>>)
    /\ PlannerInit
    /\ FollowerInit
    /\ SegmentIdle
    /\ RestIdle

\* plan() has grown a tree and drawn a sample.
GrowTree(ns, p) ==
    /\ nearest_returned = 0
    /\ nodes = <<>>
    /\ nodes' = ns
    /\ sample' = p
    /\ planState' = "GROWING"
    /\ UNCHANGED <<environment, iter, start, goal, result, new_node, plan_calls,
                   followerVars, segmentVars, carVars, observerVars, randomVars, smooth,
                   scanVars, simVars>>

\* RRTPlanner._get_nearest_node(rand_x, rand_y) on the tree
GetNearest ==
    /\ nodes # <<>>
    /\ nearest_returned = 0
    /\ nearest_returned' = GetNearestNode(nodes, sample.x, sample.y)
    /\ UNCHANGED <<environment, plannerVars, followerVars, segmentVars, carVars,
                   observerVars, randomVars, smooth, simVars>>

NearestNext ==
    \/ \E ns \in Trees : \E p \in SamplePoints : GrowTree(ns, p)
    \/ GetNearest

NearestSpec == NearestSpecInit /\ [][NearestNext]_vars

\* C23: _get_nearest_node returns a tree node at minimal Euclidean distance from
\* the sample, and the one inserted first when several nodes are at that distance.
C23_NearestIsFirstMinimum ==
    nearest_returned # 0 =>
        /\ nearest_returned \in 1..Len(nodes)
        /\ \A j \in 1..Len(nodes) :
               Distance(nodes[j].x, nodes[j].y, sample.x, sample.y) >=
                   Distance(nodes[nearest_returned].x, nodes[nearest_returned].y, sample.x, sample.y)
        /\ \A j \in 1..(nearest_returned - 1) :
               Distance(nodes[j].x, nodes[j].y, sample.x, sample.y) >
                   Distance(nodes[nearest_returned].x, nodes[nearest_returned].y, sample.x, sample.y)

\* The scan has returned the earlier of two nodes equally near the sample, and
\* it is not the root.
C23_Witness ==
    /\ nearest_returned > 1
    /\ \E j \in (nearest_returned + 1)..Len(nodes) :
           Distance(nodes[j].x, nodes[j].y, sample.x, sample.y) =
               Distance(nodes[nearest_returned].x, nodes[nearest_returned].y, sample.x, sample.y)

(***************************************************************************)
(* The Simulation: key events, the tick of run(), start_autonomous_mode    *)
(***************************************************************************)
\* Environment.set_goal
WithGoal(env, px, py) == env @@ [goal |-> Pt(px, py)]

\* Environment.check_collision: the boundary test of lines 604-606.  The
\* workspaces of the Simulation modelled here hold no obstacle, so the loop of
\* lines 610-616 has nothing to test.
CheckCollision(env, v) ==
    \/ v.x < Px(collision_margin_px)
    \/ v.x > env.width - Px(collision_margin_px)
    \/ v.y < Px(collision_margin_px)
    \/ v.y > env.height - Px(collision_margin_px)

\* Environment.check_goal_reached: distance <= radius, compared as squares
CheckGoalReached(env, v) ==
    (v.x - env.goal.x) * (v.x - env.goal.x) + (v.y - env.goal.y) * (v.y - env.goal.y)
        <= Px(GOAL_RADIUS) * Px(GOAL_RADIUS)

\* Mutant: a car that has collided is still controlled.
InputSkippedWhenPausedOnly(s) == s.paused

\* handle_input, line 253: if self.paused or self.collision: return
InputSkipped(s) == s.paused \/ s.collision

\* update, line 316
UpdateSkipped(s) == s.paused \/ s.collision \/ s.goal_reached

\* Mutant: only a collision refuses planning.
RefusedOnCollisionOnly(s) == s.collision

\* start_autonomous_mode, line 662
Refused(s) == s.goal_reached \/ s.collision

\* manual_control with the keys held: keys[1] is up, down or none, keys[2] is
\* left, right or none
ManualControl(v, keys) ==
    [v EXCEPT
       !.velocity = IF keys[1] = "up" THEN Accelerated(v.velocity)
                    ELSE IF keys[1] = "down" THEN Reversed(v.velocity)
                    ELSE Braked(v.velocity),
       !.steering_angle = IF keys[2] = "left" THEN SteeredLeft(v.steering_angle)
                          ELSE IF keys[2] = "right" THEN SteeredRight(v.steering_angle)
                          ELSE Centered(v.steering_angle)]

\* Key combinations held during a tick
KeysHeld == { <<"up", "left">>, <<"none", "none">> }

\* The position that stands for the fitted curve at u = u_num / u_den: the
\* library's coordinates are not modelled, the point is taken on the polyline
\* through the waypoints of p.
CurvePosition(p, cp) ==
    LET t_num == cp.u_num * (Len(p) - 1)
        k == Min(t_num \div cp.u_den, Len(p) - 2) + 1
        part == t_num - (k - 1) * cp.u_den
    IN [x |-> p[k].x + Quot((p[k + 1].x - p[k].x) * part, cp.u_den),
        y |-> p[k].y + Quot((p[k + 1].y - p[k].y) * part, cp.u_den)]

\* The waypoints smooth_path(raw_path, smoothness=50) returns
SmoothedPath(p, fit) ==
    IF Len(p) < 3 \/ fit # "ok" THEN SmoothOutcome(p, fit).result
    ELSE LET curve == SmoothOutcome(p, fit).result
         IN [k \in 1..Len(curve) |-> CurvePosition(p, curve[k])]

\* handle_events, lines 193-203: key R
KeyR ==
    /\ sim.at = "run"
    /\ vehicle' = Car(Px(CAR_START_X), Px(CAR_START_Y), CAR_START_ANGLE)
    /\ carOp' = "init"
    /\ updates' = 0
    /\ sim' = [sim EXCEPT !.collision = FALSE, !.goal_reached = FALSE,
                          !.planned_path = <<>>, !.autonomous_mode = FALSE,
                          !.rrt_visualization_data = <<>>, !.planning_complete = FALSE,
                          !.frames = 0]
    /\ nodes' = <<>>
    /\ UNCHANGED <<environment, planState, iter, start, goal, result, sample, new_node,
                   plan_calls, followerVars, segmentVars, observerVars,
                   randomVars, smooth, scanVars, visualization_callback>>

\* Mutant: the path is cleared and autonomous mode is left on.
ClearedPathOnly(s) ==
    [s EXCEPT !.planned_path = <<>>, !.rrt_visualization_data = <<>>,
              !.planning_complete = FALSE]

\* handle_events, lines 217-222: what key C assigns in the Simulation
Cleared(s) ==
    [s EXCEPT !.planned_path = <<>>, !.autonomous_mode = FALSE,
              !.rrt_visualization_data = <<>>, !.planning_complete = FALSE]

\* handle_events, lines 216-222: key C
KeyC ==
    /\ sim.at = "run"
    /\ sim' = Cleared(sim)
    /\ nodes' = <<>>
    /\ UNCHANGED <<environment, planState, iter, start, goal, result, sample, new_node,
                   plan_calls, followerVars, segmentVars, carVars, observerVars,
                   randomVars, smooth, scanVars, visualization_callback>>

\* handle_events, lines 185-186: key SPACE
KeySpace ==
    /\ sim.at = "run"
    /\ sim' = [sim EXCEPT !.paused = ~sim.paused]
    /\ UNCHANGED <<environment, plannerVars, followerVars, segmentVars, carVars,
                   observerVars, randomVars, smooth, scanVars, visualization_callback>>

\* handle_events, lines 179-184: the window is closed or ESCAPE is pressed
KeyEscape ==
    /\ sim.at = "run"
    /\ sim' = [sim EXCEPT !.running = FALSE]
    /\ UNCHANGED <<environment, plannerVars, followerVars, segmentVars, carVars,
                   observerVars, randomVars, smooth, scanVars, visualization_callback>>

\* handle_events, lines 209-215: key P.  In autonomous mode it switches the mode
\* off; otherwise it calls start_autonomous_mode, which is refused after a
\* collision or at the goal and else runs up to the first line of plan().
KeyP ==
    /\ sim.at = "run"
    /\ IF sim.autonomous_mode
       THEN /\ sim' = [sim EXCEPT !.autonomous_mode = FALSE, !.planned_path = <<>>]
            /\ UNCHANGED <<plannerVars, visualization_callback>>
       ELSE IF Refused(sim)
       THEN /\ sim' = [sim EXCEPT !.printed = "Reset first (press R)"]
            /\ UNCHANGED <<plannerVars, visualization_callback>>
       ELSE /\ sim' = [sim EXCEPT !.planned_path = <<>>, !.rrt_visualization_data = <<>>,
                                  !.planning_complete = FALSE,
                                  !.planning_in_progress = TRUE,
                                  !.at = "plan",
                                  !.printed = "Planning path with visualization..."]
            /\ visualization_callback' = "on_planning_update"
            /\ plan_calls < MaxSimPlans
            /\ PlanBeginStep([x |-> vehicle.x, y |-> vehicle.y], environment.goal)
    /\ UNCHANGED <<environment, followerVars, segmentVars, carVars, observerVars,
                   randomVars, smooth, scanVars>>

\* plan() reaches its loop.
SimEnterLoop ==
    /\ sim.at = "plan"
    /\ EnterLoopStep
    /\ UNCHANGED <<followerVars, segmentVars, restVars>>

\* One iteration of plan(); the snapshots it hands to the observer are queued.
SimIterate(coin, p) ==
    /\ sim.at = "plan"
    /\ sim.pending = <<>>
    /\ iter < MaxSimIterations
    /\ IterateStep(coin, p)
    /\ sim' = [sim EXCEPT !.pending =
                   IF visualization_callback = "none" THEN <<>>
                   ELSE Callbacks(iter, new_node' # 0, planState' = "FOUND", nodes',
                                  sample', goal)]
    /\ UNCHANGED <<followerVars, segmentVars, carVars, observerVars, randomVars, smooth,
                   scanVars, visualization_callback>>

\* The loop of plan() ends without a path.
SimExhaust ==
    /\ sim.at = "plan"
    /\ sim.pending = <<>>
    /\ iter >= MaxSimIterations
    /\ ExhaustStep
    /\ UNCHANGED <<followerVars, segmentVars, restVars>>

\* Mutant: the observer handles key R as handle_events does.
AfterPlanningUpdateDispatching(st, data, ev) ==
    [sim |-> [st.sim EXCEPT !.rrt_visualization_data = << data >>,
                            !.running = IF ev \in {"quit", "escape"} THEN FALSE ELSE @,
                            !.planned_path = IF ev = "r" THEN <<>> ELSE @,
                            !.planning_complete = IF ev = "r" THEN FALSE ELSE @],
     nodes |-> IF ev = "r" THEN <<>> ELSE st.nodes]

\* Simulation.on_planning_update on the Simulation st.sim and the planner's tree
\* st.nodes: the snapshot is kept for drawing, and of the events taken from the
\* queue only QUIT and ESCAPE are acted on.
AfterPlanningUpdate(st, data, ev) ==
    [sim |-> [st.sim EXCEPT !.rrt_visualization_data = << data >>,
                            !.running = IF ev \in {"quit", "escape"} THEN FALSE ELSE @],
     nodes |-> st.nodes]

\* Events waiting in the queue when the observer runs
ObserverEvents == { "none", "quit", "escape", "r" }

\* The planner calls its observer with the next snapshot.
OnPlanningUpdate(ev) ==
    /\ sim.at = "plan"
    /\ sim.pending # <<>>
    /\ LET after == AfterPlanningUpdate([sim |-> sim, nodes |-> nodes], Head(sim.pending), ev)
       IN /\ sim' = [after.sim EXCEPT !.pending = Tail(sim.pending)]
          /\ nodes' = after.nodes
    /\ UNCHANGED <<environment, planState, iter, start, goal, result, sample, new_node,
                   plan_calls, followerVars, segmentVars, carVars, observerVars,
                   randomVars, smooth, scanVars, visualization_callback>>

\* start_autonomous_mode after plan() has returned, lines 688-701
FinishPlanning(fit) ==
    /\ sim.at = "plan"
    /\ sim.pending = <<>>
    /\ planState \in {"FOUND", "EXHAUSTED"}
    /\ IF result # <<>>
       THEN LET planned == SmoothedPath(result, fit)
            IN /\ sim' = [sim EXCEPT !.planned_path = planned, !.autonomous_mode = TRUE,
                                     !.planning_in_progress = FALSE,
                                     !.planning_complete = TRUE, !.at = "run",
                                     !.printed = "Autonomous mode activated!"]
               /\ path' = planned
               /\ current_waypoint_index' = 0
               /\ lastOp' = "set_path"
               /\ ret' = 0
               /\ raised' = FALSE
       ELSE /\ sim' = [sim EXCEPT !.planning_in_progress = FALSE,
                                  !.planning_complete = TRUE, !.at = "run",
                                  !.printed = "Could not find path to goal!"]
            /\ UNCHANGED <<path, current_waypoint_index, lastOp, ret, raised>>
    /\ visualization_callback' = "none"
    /\ UNCHANGED <<environment, plannerVars, car, threshold, segmentVars, carVars,
                   observerVars, randomVars, smooth, scanVars>>

\* One pass of the loop of run() after its events: handle_input, update, and the
\* test of self.running.
Tick(keys) ==
    /\ sim.at = "run"
    /\ \/ InputSkipped(sim)
       \/ sim.autonomous_mode /\ updates < MaxSimFrames
       \/ ~sim.autonomous_mode /\ sim.frames < MaxSimUpdates
    /\ LET c == Pose(vehicle)
           autonomous == ~InputSkipped(sim) /\ sim.autonomous_mode
           complete == IsPathComplete(path, c)
           following == autonomous /\ ~(sim.planned_path = <<>> \/ complete)
           desired_steering == SteeringValue(path, current_waypoint_index, c)
           index_1 == IndexAfterLookahead(path, current_waypoint_index, c)
           desired_speed == SpeedValue(path, index_1, c, CAR_MAX_SPEED)
           v1 == IF InputSkipped(sim) THEN vehicle
                 ELSE IF ~sim.autonomous_mode THEN ManualControl(vehicle, keys)
                 ELSE IF ~following
                 THEN [vehicle EXCEPT !.velocity = Braked(vehicle.velocity)]
                 ELSE [vehicle EXCEPT
                         !.steering_angle =
                             AutonomousSteering(vehicle.steering_angle, desired_steering),
                         !.velocity = AutonomousSpeed(vehicle.velocity, desired_speed)]
           v2 == IF UpdateSkipped(sim) THEN v1 ELSE Updated(v1)
       IN /\ vehicle' = v2
          /\ carOp' = IF ~UpdateSkipped(sim) THEN "update"
                      ELSE IF ~InputSkipped(sim) THEN "control" ELSE carOp
          /\ updates' = IF UpdateSkipped(sim) THEN updates ELSE updates + 1
          /\ IF following
             THEN /\ current_waypoint_index' = IndexAfterLookahead(path, index_1, c)
                  /\ car' = c
                  /\ lastOp' = "calculate_speed"
                  /\ ret' = desired_speed
                  /\ raised' = FALSE
             ELSE UNCHANGED <<current_waypoint_index, car, lastOp, ret, raised>>
          /\ sim' = [sim EXCEPT
                        !.autonomous_mode = IF autonomous /\ complete THEN FALSE ELSE @,
                        !.collision =
                            @ \/ (~UpdateSkipped(sim) /\ CheckCollision(environment, v2)),
                        !.goal_reached =
                            @ \/ (~UpdateSkipped(sim) /\ CheckGoalReached(environment, v2)),
                        !.frames = IF InputSkipped(sim) \/ sim.autonomous_mode THEN @ ELSE @ + 1,
                        !.at = IF sim.running THEN "run" ELSE "exited"]
    /\ UNCHANGED <<environment, plannerVars, path, threshold, segmentVars, observerVars,
                   randomVars, smooth, scanVars, visualization_callback>>

\* Workspaces of the Simulation, all without obstacles: a narrow one in which
\* the car comes too close to the border within a few frames of driving, one
\* with the goal just beyond reach of the start pose, one with the goal farther.
SimEnvironments ==
    { WithGoal(Environment(93, 200, <<>>), 70, 130),
      WithGoal(Environment(200, 200, <<>>), 90, 72),
      WithGoal(Environment(200, 200, <<>>), 130, 70) }

\* values random.uniform draws for (rand_x, rand_y)
SimRandomPoints == { Pt(100, 100) }

SimSpecInit ==
    /\ environment \in SimEnvironments
    /\ PlannerInit
    /\ FollowerInit
    /\ SegmentIdle
    /\ RestIdle

SimNext ==
    \/ KeyR
    \/ KeyC
    \/ KeySpace
    \/ KeyEscape
    \/ KeyP
    \/ SimEnterLoop
    \/ \E coin \in BOOLEAN : \E p \in SimRandomPoints : SimIterate(coin, p)
    \/ \E ev \in ObserverEvents : OnPlanningUpdate(ev)
    \/ SimExhaust
    \/ \E fit \in {"ok", "fails"} : FinishPlanning(fit)
    \/ \E keys \in KeysHeld : Tick(keys)

SimSpec == SimSpecInit /\ [][SimNext]_vars

(***************************************************************************)
(* Claims about the Simulation                                             *)
(***************************************************************************)
\* A step in which on_planning_update received a snapshot
ObserverStep == sim.at = "plan" /\ Len(sim'.pending) < Len(sim.pending)

C26_PlanningBracket ==
    /\ sim.planning_in_progress <=> sim.at = "plan"
    /\ sim.planning_in_progress => visualization_callback = "on_planning_update"
    /\ ~sim.planning_in_progress => visualization_callback = "none"

C26_Step ==
    /\ ObserverStep =>
          /\ nodes' = nodes
          /\ plan_calls' = plan_calls
          /\ planState' = planState /\ iter' = iter /\ result' = result
          /\ sim'.planning_in_progress
          /\ sim'.planning_complete = sim.planning_complete
          /\ sim'.planned_path = sim.planned_path
          /\ sim'.autonomous_mode = sim.autonomous_mode
          /\ sim'.at = "plan"
          /\ visualization_callback' = visualization_callback
    /\ sim.planning_in_progress /\ ~sim'.planning_in_progress =>
          /\ planState \in {"FOUND", "EXHAUSTED"}
          /\ planState' = planState
          /\ visualization_callback' = "none"

\* C26: while plan() runs, on_planning_update leaves the planner's tree alone,
\* starts no plan and cannot end planning, whatever event it takes from the
\* queue: planning_in_progress is dropped only once plan() has come to FOUND or
\* EXHAUSTED, and the planner's observer is then None again.
C26_ObserverCannotCancel == [](C26_PlanningBracket) /\ [][C26_Step]_vars

\* plan() has found a path after the observer took QUIT or ESCAPE from the queue
C26_Witness ==
    /\ ~sim.running
    /\ sim.planning_complete
    /\ ~sim.planning_in_progress
    /\ planState = "FOUND"
    /\ visualization_callback = "none"
    /\ sim.rrt_visualization_data # <<>>

C28_Inv == sim.autonomous_mode => sim.planned_path # <<>> /\ path = sim.planned_path

C28_Step ==
    (KeyR \/ KeyC \/ (KeyP /\ sim.autonomous_mode)) =>
        ~sim'.autonomous_mode /\ sim'.planned_path = <<>>

\* C28: in every state of the Simulation, autonomous mode implies a planned path
\* that is also the path follower's path; keys R and C, and key P in autonomous
\* mode, leave the mode off and the planned path cleared.
C28_AutonomousHasPath == [](C28_Inv) /\ [][C28_Step]_vars

\* the car has been driven along the planned path for some frames
C28_Witness == sim.autonomous_mode /\ updates > 2 /\ lastOp = "calculate_speed"

C29_Step ==
    /\ sim.collision /\ ~KeyR =>
          /\ sim'.collision
          /\ vehicle'.x = vehicle.x /\ vehicle'.y = vehicle.y
          /\ vehicle'.angle = vehicle.angle
          /\ vehicle'.velocity = vehicle.velocity
          /\ vehicle'.steering_angle = vehicle.steering_angle
    /\ sim.collision /\ KeyR =>
          /\ ~sim'.collision
          /\ vehicle' = Car(Px(CAR_START_X), Px(CAR_START_Y), CAR_START_ANGLE)

\* C29: once the collision flag is set it stays set, and no tick and no key but
\* R changes the car's position, heading, speed or steering angle; R puts a new
\* car at the start pose and clears the flag.
C29_CollisionFreezesCar == [][C29_Step]_vars

\* a key was handled after the collision, and the car still has its speed
C29_Witness == sim.collision /\ sim.paused /\ vehicle.velocity # 0

C30_Step ==
    KeyP /\ ~sim.autonomous_mode /\ (sim.collision \/ sim.goal_reached) =>
        /\ sim'.planned_path = sim.planned_path
        /\ sim'.autonomous_mode = sim.autonomous_mode
        /\ sim'.planning_in_progress = sim.planning_in_progress
        /\ sim'.planning_complete = sim.planning_complete
        /\ sim'.rrt_visualization_data = sim.rrt_visualization_data
        /\ nodes' = nodes
        /\ visualization_callback' = visualization_callback
        /\ path' = path
        /\ current_waypoint_index' = current_waypoint_index
        /\ plan_calls' = plan_calls
        /\ planState' = planState

\* C30: key P outside autonomous mode with collision or goal_reached set calls
\* start_autonomous_mode, which returns without planning: the planned path, the
\* planner's tree and observer, the follower's path and index and the three
\* mode flags are as before.
C30_RefusedStartChangesNothing == [][C30_Step]_vars

\* start_autonomous_mode was refused at the goal with a planned path in place
C30_Witness ==
    /\ sim.printed = "Reset first (press R)"
    /\ sim.goal_reached
    /\ sim.planned_path # <<>>
    /\ nodes # <<>>

====
